---- MODULE Spec2Model ----
(***************************************************************************)
(* Sweet Shop: the React frontend (AuthProvider, SweetProvider,            *)
(* ApiService, Dashboard and the sweet forms) talking to the inventory     *)
(* backend.  The frontend is translated from the JavaScript sources; the   *)
(* backend (Django, not part of the sources at hand) is the               *)
(* InventoryService / AccessPolicy of the specification, sections 4 and 5. *)
(*                                                                         *)
(* Every call of a context function is an async function: it sends one    *)
(* HTTP request (a slot of `net`), the server handles the request in one   *)
(* atomic step, and the function resumes when the response arrives.        *)
(* Requests are handled and responses delivered in any order.              *)
(***************************************************************************)
EXTENDS Integers, Sequences, FiniteSets, TLC

VARIABLES
    store,       \* server: the records, a function from the ids present
    nextId,      \* server: next fresh id
    storage,     \* localStorage: access_token, refresh_token, user_data
    isLoggedIn,  \* AuthProvider state
    user,        \* AuthProvider state
    authLoading, \* AuthProvider state `loading`
    sweets,      \* SweetProvider state
    loading,     \* SweetProvider state
    error,       \* SweetProvider state
    net,         \* in-flight calls: slot -> call record
    modal,       \* Dashboard: showAddForm/showEditForm/showRestockForm + selectedSweet,
                 \* with the mounted form's error and loading state
    searchQuery, \* Dashboard state
    logged,      \* the query of the last console.log of Dashboard.handleSearch
    cards,       \* SweetCard state by sweet id: purchaseQuantity and loading
    latest       \* history: the fetchSweets / searchSweets call issued last (its
                 \* slot, or what it came back with), kept while such calls overlap

vars == <<store, nextId, storage, isLoggedIn, user, authLoading,
          sweets, loading, error, net, modal, searchQuery, logged, cards,
          latest>>

(***************************************************************************)
(* Bounds of the model.                                                    *)
(***************************************************************************)
MaxInFlight == 2   \* calls in flight at once
MaxId == 3         \* ids the server hands out
MaxStock == 3      \* restock is not handled past this stock
RaceStock == 5     \* stock at the start of the concurrent-purchase scenario
RaceQty == 3       \* largest quantity drawn in the concurrent-purchase scenario

Slots == 1..MaxInFlight
Ids == 1..MaxId

(***************************************************************************)
(* JavaScript values.                                                      *)
(***************************************************************************)
Undefined == "undefined"
Null == "null"

\* A number as parseInt / parseFloat return it: a value, or NaN.
Num(n) == [nan |-> FALSE, val |-> n]
NaN == [nan |-> TRUE, val |-> 0]

(***************************************************************************)
(* Text.  A string is a sequence of one-character strings.                 *)
(***************************************************************************)
UpperChars == <<"A","B","C","D","E","F","G","H","I","J","K","L","M",
                "N","O","P","Q","R","S","T","U","V","W","X","Y","Z">>
LowerChars == <<"a","b","c","d","e","f","g","h","i","j","k","l","m",
                "n","o","p","q","r","s","t","u","v","w","x","y","z">>
DigitChars == <<"0","1","2","3","4","5","6","7","8","9">>

IsSpace(c) == c = " "
IsDigit(c) == \E i \in 1..10 : DigitChars[i] = c
DigitVal(c) == (CHOOSE i \in 1..10 : DigitChars[i] = c) - 1

LowerChar(c) ==
    IF \E i \in 1..26 : UpperChars[i] = c
    THEN LowerChars[CHOOSE i \in 1..26 : UpperChars[i] = c]
    ELSE c

ToLower(s) == [i \in 1..Len(s) |-> LowerChar(s[i])]

RECURSIVE TrimStart(_)
TrimStart(s) ==
    IF s # <<>> /\ IsSpace(Head(s)) THEN TrimStart(Tail(s)) ELSE s

RECURSIVE TrimEnd(_)
TrimEnd(s) ==
    IF s # <<>> /\ IsSpace(s[Len(s)]) THEN TrimEnd(SubSeq(s, 1, Len(s) - 1)) ELSE s

\* String.prototype.trim
Trim(s) == TrimEnd(TrimStart(s))

\* String.prototype.includes
Includes(hay, needle) ==
    \E i \in 0..(Len(hay) - Len(needle)) :
        SubSeq(hay, i + 1, i + Len(needle)) = needle

RECURSIVE DigitPrefix(_)
DigitPrefix(s) ==
    IF s # <<>> /\ IsDigit(Head(s)) THEN <<Head(s)>> \o DigitPrefix(Tail(s)) ELSE <<>>

RECURSIVE DigitsValue(_)
DigitsValue(ds) ==
    IF ds = <<>> THEN 0
    ELSE 10 * DigitsValue(SubSeq(ds, 1, Len(ds) - 1)) + DigitVal(ds[Len(ds)])

HasSign(s) == s # <<>> /\ Head(s) \in {"-", "+"}
Unsigned(s) == IF HasSign(s) THEN Tail(s) ELSE s
SignOf(s) == IF s # <<>> /\ Head(s) = "-" THEN -1 ELSE 1

\* parseInt(text): leading white space, an optional sign, then the longest run
\* of decimal digits; NaN when there is no digit.  (No text of the model starts
\* with "0x", the one case parseInt reads in another radix.)
ParseInt(text) ==
    LET s == TrimStart(text)
        ds == DigitPrefix(Unsigned(s))
    IN  IF ds = <<>> THEN NaN ELSE Num(SignOf(s) * DigitsValue(ds))

\* Prices are amounts with two decimals, held as a number of hundredths.
PriceScale == 100

\* parseFloat(text) in hundredths: sign, integer digits, an optional fraction;
\* NaN when neither part has a digit.  The texts of the model carry at most two
\* decimals and no exponent, so the value in hundredths is exact.
ParseFloat(text) ==
    LET s == TrimStart(text)
        u == Unsigned(s)
        ip == DigitPrefix(u)
        rest == SubSeq(u, Len(ip) + 1, Len(u))
        fp == IF rest # <<>> /\ Head(rest) = "." THEN DigitPrefix(Tail(rest)) ELSE <<>>
        f2 == SubSeq(fp \o <<"0", "0">>, 1, 2)
    IN  IF ip = <<>> /\ fp = <<>> THEN NaN
        ELSE Num(SignOf(s) * (PriceScale * DigitsValue(ip) + DigitsValue(f2)))

\* isNaN(v)
IsNaN(v) == v.nan

(***************************************************************************)
(* Backend: AccessPolicy and InventoryService (specification 4.1, 4.2, 5). *)
(* A request carries the token of its Authorization header; the server     *)
(* resolves the caller's role from it on every request.                    *)
(***************************************************************************)
NoAuth == "none"            \* no Authorization header
UserToken == "tokU"         \* access token of a non-admin account
AdminToken == "tokA"        \* access token of an admin account
ExpiredToken == "tokX"      \* a token the server no longer accepts

RoleOf(auth) ==
    IF auth = AdminToken THEN "admin"
    ELSE IF auth = UserToken THEN "user"
    ELSE "anonymous"

AdminOps == {"create", "update", "delete", "restock"}
InventoryOps == AdminOps \cup {"list", "search", "purchase"}

\* AccessPolicy: list, search and purchase need user or admin; the rest admin.
Permitted(role, op) ==
    IF op \in AdminOps THEN role = "admin" ELSE role \in {"user", "admin"}

\* HTTP responses.  data.kind: "record" (one sweet in items), "list" (an array
\* of sweets), "empty" (no body: the empty text) or "error" (an object whose
\* detail names the typed error).
OkRecord(rec) == [ok |-> TRUE, status |-> 200,
                  data |-> [kind |-> "record", items |-> <<rec>>,
                            message |-> Undefined, detail |-> Undefined]]
OkList(recs) == [ok |-> TRUE, status |-> 200,
                 data |-> [kind |-> "list", items |-> recs,
                           message |-> Undefined, detail |-> Undefined]]
OkEmpty == [ok |-> TRUE, status |-> 204,
            data |-> [kind |-> "empty", items |-> <<>>,
                      message |-> Undefined, detail |-> Undefined]]
Fail(status, kind) == [ok |-> FALSE, status |-> status,
                       data |-> [kind |-> "error", items |-> <<>>,
                                 message |-> Undefined, detail |-> kind]]

Unauthorized == Fail(401, "AuthorizationError")
Forbidden == Fail(403, "AuthorizationError")
NotFound == Fail(404, "NotFoundError")
Invalid == Fail(400, "ValidationError")
Insufficient == Fail(400, "InsufficientStockError")

\* The rejection of AccessPolicy for a role that may not invoke the operation.
Rejection(role) == IF role = "anonymous" THEN Unauthorized ELSE Forbidden

\* Field validation of create and update.
ValidFields(body) ==
    /\ Trim(body.name) # <<>>
    /\ Trim(body.category) # <<>>
    /\ body.price > 0
    /\ body.quantity_in_stock >= 0

RECURSIVE SortedIds(_)
SortedIds(S) ==
    IF S = {} THEN <<>>
    ELSE LET m == CHOOSE x \in S : \A y \in S : x <= y
         IN  <<m>> \o SortedIds(S \ {m})

\* list(): all records, by id ascending.
ListAll(st) == LET ids == SortedIds(DOMAIN st) IN [i \in 1..Len(ids) |-> st[ids[i]]]

Matches(rec, q) ==
    \/ Includes(ToLower(rec.name), ToLower(q))
    \/ Includes(ToLower(rec.category), ToLower(q))

\* search(query): case-insensitive substring match on name or category, by id
\* ascending; the empty query gives the full listing.
SearchAll(st, q) ==
    LET ids == SortedIds({i \in DOMAIN st : q = <<>> \/ Matches(st[i], q)})
    IN  [i \in 1..Len(ids) |-> st[ids[i]]]

Put(st, rec) == [i \in DOMAIN st \cup {rec.id} |-> IF i = rec.id THEN rec ELSE st[i]]
Remove(st, id) == [i \in DOMAIN st \ {id} |-> st[i]]

\* The InventoryService operations: the response and the store afterwards.
ServiceCreate(st, nid, body) ==
    IF ~ValidFields(body) THEN [http |-> Invalid, store |-> st]
    ELSE LET rec == [id |-> nid, name |-> body.name, category |-> body.category,
                     price |-> body.price, quantity_in_stock |-> body.quantity_in_stock]
         IN  [http |-> OkRecord(rec), store |-> Put(st, rec)]

ServiceUpdate(st, id, body) ==
    IF id \notin DOMAIN st THEN [http |-> NotFound, store |-> st]
    ELSE IF ~ValidFields(body) THEN [http |-> Invalid, store |-> st]
    ELSE LET rec == [id |-> id, name |-> body.name, category |-> body.category,
                     price |-> body.price, quantity_in_stock |-> body.quantity_in_stock]
         IN  [http |-> OkRecord(rec), store |-> Put(st, rec)]

ServiceDelete(st, id) ==
    IF id \notin DOMAIN st THEN [http |-> NotFound, store |-> st]
    ELSE [http |-> OkEmpty, store |-> Remove(st, id)]

\* purchase: check and decrement are one atomic unit (section 5).
ServicePurchase(st, id, body) ==
    IF id \notin DOMAIN st THEN [http |-> NotFound, store |-> st]
    ELSE IF body.quantity <= 0 THEN [http |-> Invalid, store |-> st]
    ELSE IF body.quantity > st[id].quantity_in_stock THEN [http |-> Insufficient, store |-> st]
    ELSE LET rec == [st[id] EXCEPT !.quantity_in_stock = @ - body.quantity]
         IN  [http |-> OkRecord(rec), store |-> Put(st, rec)]

ServiceRestock(st, id, body) ==
    IF id \notin DOMAIN st THEN [http |-> NotFound, store |-> st]
    ELSE IF body.quantity <= 0 THEN [http |-> Invalid, store |-> st]
    ELSE LET rec == [st[id] EXCEPT !.quantity_in_stock = @ + body.quantity]
         IN  [http |-> OkRecord(rec), store |-> Put(st, rec)]

\* The API boundary: AccessPolicy first, then the operation.
Handle(st, nid, req) ==
    IF ~Permitted(RoleOf(req.auth), req.op)
    THEN [http |-> Rejection(RoleOf(req.auth)), store |-> st]
    ELSE CASE req.op = "list" -> [http |-> OkList(ListAll(st)), store |-> st]
           [] req.op = "search" -> [http |-> OkList(SearchAll(st, req.body.q)), store |-> st]
           [] req.op = "create" -> ServiceCreate(st, nid, req.body)
           [] req.op = "update" -> ServiceUpdate(st, req.id, req.body)
           [] req.op = "delete" -> ServiceDelete(st, req.id)
           [] req.op = "purchase" -> ServicePurchase(st, req.id, req.body)
           [] req.op = "restock" -> ServiceRestock(st, req.id, req.body)

(***************************************************************************)
(* ApiService (src/Frontend/src/services/api.js).                          *)
(***************************************************************************)
\* getAuthHeaders: the Authorization header is sent only when a token is stored.
getAuthHeaders(stg) ==
    IF stg.access_token # Null THEN stg.access_token ELSE NoAuth

\* transformSweetFromBackend: {...sweet, quantity: sweet.quantity_in_stock}
transformSweetFromBackend(sweet) ==
    [f \in DOMAIN sweet \cup {"quantity"} |->
        IF f = "quantity" THEN sweet.quantity_in_stock ELSE sweet[f]]

\* transformSweetsFromBackend handing the sweets back last to first.
transformSweetsFromBackendReversed(items) ==
    [i \in 1..Len(items) |-> transformSweetFromBackend(items[Len(items) + 1 - i])]

\* transformSweetsFromBackend
transformSweetsFromBackend(items) ==
    [i \in 1..Len(items) |-> transformSweetFromBackend(items[i])]

IsArray(data) == data.kind = "list"
\* The empty text of a response without body is falsy, and so are null and
\* undefined; objects, arrays and other texts are not.
Truthy(data) == data.kind \notin {"empty", "null", "undefined"}

HttpErrorText == "HTTP error! status"

\* a || b on texts
OrElse(a, b) == IF a \in {Undefined, ""} THEN b ELSE a

(***************************************************************************)
(* What fetch and the reading of the body can end in, besides the          *)
(* responses of the inventory service.  data.kind: "rejected" (fetch       *)
(* rejects, there is no response; detail is error.message), "garbled" (the *)
(* content type is JSON and the body is not: response.json() rejects),     *)
(* "null" (the JSON value null), "text" (a body that is not JSON, such as   *)
(* the error page of a gateway).                                           *)
(***************************************************************************)
Outcome(ok, status, kind, message, detail) ==
    [ok |-> ok, status |-> status,
     data |-> [kind |-> kind, items |-> <<>>, message |-> message, detail |-> detail]]
NoResponse(msg) == Outcome(FALSE, -1, "rejected", Undefined, msg)
HasResponse(http) == http.data.kind # "rejected"

\* A result without the key `data`.
NoData == [kind |-> "undefined", items |-> <<>>, message |-> Undefined, detail |-> Undefined]

\* request(), the catch block: error.message || "Network error occurred"
Caught(msg) ==
    [success |-> FALSE, data |-> NoData, status |-> 0,
     error |-> OrElse(msg, "Network error occurred")]

\* The messages of the errors thrown inside the try block.
FetchErrorText(http) ==
    CASE http.data.kind = "rejected" -> http.data.detail
      [] http.data.kind = "garbled" -> "Unexpected token"
      [] http.data.kind = "null" -> "Cannot read properties of null"

\* request() with the error text of the response body ignored.
requestResultStatusOnly(http) ==
    [success |-> http.ok, data |-> http.data, status |-> http.status,
     error |-> IF http.ok THEN Undefined ELSE HttpErrorText]

\* request(): what the call resolves to.  fetch or response.json() may reject,
\* and data.message throws when a response that is not ok carries null; the
\* catch block takes all three.
\* error: data.message || data.detail || `HTTP error! status: ...`
requestResult(http) ==
    IF ~HasResponse(http) \/ http.data.kind = "garbled" THEN Caught(FetchErrorText(http))
    ELSE IF ~http.ok
    THEN IF http.data.kind = "null" THEN Caught(FetchErrorText(http))
         ELSE [success |-> FALSE, data |-> NoData, status |-> http.status,
               error |-> OrElse(http.data.message, OrElse(http.data.detail, HttpErrorText))]
    ELSE [success |-> TRUE, data |-> http.data, status |-> http.status,
          error |-> Undefined]

\* getSweets, addSweet, updateSweet, searchSweets, purchaseSweet, restockSweet:
\* if (response.success && response.data) response.data = transform(response.data)
transformResponse(resp) ==
    IF resp.success /\ Truthy(resp.data)
    THEN [resp EXCEPT !.data.items = transformSweetsFromBackend(@)]
    ELSE resp

\* backendData without `delete backendData.quantity`.
backendDataKeepingQuantity(sweetData) ==
    [f \in DOMAIN sweetData \cup {"quantity_in_stock"} |->
        IF f = "quantity_in_stock" THEN sweetData.quantity ELSE sweetData[f]]

\* addSweet / updateSweet: {...sweetData, quantity_in_stock: sweetData.quantity}
\* and then delete backendData.quantity.
backendData(sweetData) ==
    [f \in (DOMAIN sweetData \cup {"quantity_in_stock"}) \ {"quantity"} |->
        IF f = "quantity_in_stock" THEN sweetData.quantity ELSE sweetData[f]]

\* purchaseSweet / restockSweet: body JSON.stringify({ quantity })
quantityBody(quantity) == [quantity |-> quantity]

\* The response an ApiService method hands to the context function.
apiResponse(op, http) ==
    IF op \in {"delete", "login", "register"} THEN requestResult(http)
    ELSE transformResponse(requestResult(http))

(***************************************************************************)
(* Calls in flight.  st: "free", "sent" (request on its way or at the      *)
(* server), "replied" (response on its way back; the call resumes with it  *)
(* and returns, which frees the slot).                                     *)
(***************************************************************************)
Idle == [st |-> "free", op |-> "none", id |-> 0, body |-> <<>>, auth |-> NoAuth,
         http |-> OkEmpty, caller |-> "gone"]

IsFree(n, s) == n[s].st = "free"
HasFreeSlot == \E s \in Slots : IsFree(net, s)
LowestFree(n) == CHOOSE s \in Slots : IsFree(n, s) /\ \A t \in Slots : IsFree(n, t) => s <= t
FreeSlot == LowestFree(net)

\* request(): the request leaves with the headers of this moment.
Sent(op, id, body, caller) ==
    [st |-> "sent", op |-> op, id |-> id, body |-> body,
     auth |-> getAuthHeaders(storage), http |-> OkEmpty, caller |-> caller]

Replied(s, op) == net[s].st = "replied" /\ net[s].op = op
Response(s) == apiResponse(net[s].op, net[s].http)
\* The call sending its request again where it returns.
ReturnedResending(s) == [net EXCEPT ![s].st = "sent"]

Returned(s) == [net EXCEPT ![s] = Idle]

(***************************************************************************)
(* AuthProvider and AppRouter (src/unnamed/part_000).                      *)
(***************************************************************************)
NoUser == <<>>
UserU == [username |-> "user", is_staff |-> FALSE, is_superuser |-> FALSE]
UserA == [username |-> "admin", is_staff |-> TRUE, is_superuser |-> FALSE]

\* JSON.stringify that writes every user as the plain one.
StringifyAsUser(u) == "userU"

\* JSON.stringify(user) / JSON.parse(user_data); "corrupt" does not parse.
Stringify(u) == IF u = UserA THEN "userA" ELSE "userU"
Parses(text) == text \in {"userA", "userU"}
Parse(text) == IF text = "userA" THEN UserA ELSE UserU

NoSession == [access_token |-> Null, refresh_token |-> Null, user_data |-> Null]
Session(token, u) ==
    [access_token |-> token, refresh_token |-> "refresh", user_data |-> Stringify(u)]

(***************************************************************************)
(* The authentication endpoints, an external collaborator: login answers   *)
(* the credentials of an account with its tokens and user, register        *)
(* answers a new username likewise, and both refuse anything else.         *)
(***************************************************************************)
OkAuth(status, token, u) ==
    [ok |-> TRUE, status |-> status,
     data |-> [kind |-> "auth",
               items |-> <<[access_token |-> token, refresh_token |-> "refresh", user |-> u]>>,
               message |-> Undefined, detail |-> Undefined]]
Credentials == {"user", "admin", "wrong"}
AuthHandle(req) ==
    IF req.op = "login"
    THEN CASE req.body.username = "user" -> OkAuth(200, UserToken, UserU)
           [] req.body.username = "admin" -> OkAuth(200, AdminToken, UserA)
           [] OTHER -> Fail(401, "No active account found with the given credentials")
    ELSE IF req.body.username = "wrong" THEN OkAuth(201, UserToken, UserU)
         ELSE Outcome(FALSE, 400, "error", Undefined, Undefined)

\* response.data.access_token, .refresh_token, .user
AuthField(data, f) == IF data.kind = "auth" THEN data.items[1][f] ELSE Undefined

\* login / register ending the session when the attempt fails.
loginStateClearing(resp, stg, li, u, fallback) ==
    IF resp.success /\ Truthy(resp.data) /\ AuthField(resp.data, "access_token") # Undefined
    THEN [storage |-> [access_token |-> AuthField(resp.data, "access_token"),
                       refresh_token |-> AuthField(resp.data, "refresh_token"),
                       user_data |-> Stringify(AuthField(resp.data, "user"))],
          isLoggedIn |-> TRUE,
          user |-> <<AuthField(resp.data, "user")>>,
          result |-> [success |-> TRUE, errors |-> <<>>]]
    ELSE [storage |-> NoSession, isLoggedIn |-> FALSE, user |-> NoUser,
          result |-> [success |-> FALSE, errors |-> <<OrElse(resp.error, fallback)>>]]

\* login / register after the await: the session they leave and the result
\* they return.
loginState(resp, stg, li, u, fallback) ==
    IF resp.success /\ Truthy(resp.data) /\ AuthField(resp.data, "access_token") # Undefined
    THEN [storage |-> [access_token |-> AuthField(resp.data, "access_token"),
                       refresh_token |-> AuthField(resp.data, "refresh_token"),
                       user_data |-> Stringify(AuthField(resp.data, "user"))],
          isLoggedIn |-> TRUE,
          user |-> <<AuthField(resp.data, "user")>>,
          result |-> [success |-> TRUE, errors |-> <<>>]]
    ELSE [storage |-> stg, isLoggedIn |-> li, user |-> u,
          result |-> [success |-> FALSE, errors |-> <<OrElse(resp.error, fallback)>>]]

\* isAdmin() true for every account.
isAdminOfAnyUser(u) == u # NoUser

\* isAdmin(): user?.is_staff || user?.is_superuser || false
isAdminOf(u) == u # NoUser /\ (u[1].is_staff \/ u[1].is_superuser)
isAdmin == isAdminOf(user)

\* AppRouter without the isLoggedIn test.
ViewAlwaysDashboard(ld, li) ==
    IF ld THEN "spinner" ELSE "dashboard"

\* AppRouter: what is rendered.
View(ld, li) ==
    IF ld THEN "spinner" ELSE IF ~li THEN "auth" ELSE "dashboard"
DashboardShown == View(authLoading, isLoggedIn) = "dashboard"

NoModal == [kind |-> "none", id |-> 0, error |-> "", loading |-> FALSE]
EmptyText == <<>>

(***************************************************************************)
(* Dashboard rendering (src/Frontend/src/components/dashboard).            *)
(***************************************************************************)
\* Dashboard: if (loading && sweets.length === 0) only the spinner is rendered;
\* the cards and the forms are then unmounted.
Hidden(ld, sw) == ld /\ Len(sw) = 0
DashboardInteractive == DashboardShown /\ ~Hidden(loading, sweets)
\* The page behind an open modal is not reachable.
Background == DashboardInteractive /\ modal.kind = "none"

CardIds == {sweets[i].id : i \in 1..Len(sweets)}
\* SweetCard: the purchase section is rendered unless sweet.quantity === 0.
Purchasable(id) == \E i \in 1..Len(sweets) : sweets[i].id = id /\ sweets[i].quantity # 0

\* SweetCard: useState(1) for purchaseQuantity, useState(false) for loading.
\* The state of the card of a sweet that is not rendered is the fresh one.
FreshCard == [purchaseQuantity |-> 1, loading |-> FALSE]

\* The ids of the sweets of a list (an entry without id has none).
ListIds(sw) == {sw[i].id : i \in 1..Len(sw)}
\* The cards are keyed by sweet.id: a card keeps its state while its id stays
\* in the list and the Dashboard stays mounted, and starts fresh otherwise.
CardsAfter(c, sw, shown) ==
    [id \in Ids |-> IF shown /\ id \in ListIds(sw) THEN c[id] ELSE FreshCard]
\* A call made by a card that is unmounted goes on; its setState calls on
\* the card are lost.
CardCallsAfter(n, sw) ==
    [s \in Slots |-> IF n[s].caller \in {"card", "cardfetch"} /\ n[s].id \notin ListIds(sw)
                     THEN [n[s] EXCEPT !.caller = "gone"] ELSE n[s]]

\* SweetCard.handlePurchase after its await, when the card is still mounted:
\* setPurchaseQuantity(1) on success, and setLoading(false).
CardTail(c, call, result) ==
    IF call.caller \in {"card", "cardfetch"}
    THEN [c EXCEPT ![call.id] =
            [purchaseQuantity |-> IF result.success THEN 1 ELSE @.purchaseQuantity,
             loading |-> FALSE]]
    ELSE c

\* Calls whose form is unmounted keep running; their setState calls on the
\* form are lost ("dash": the Dashboard is still there, "gone": it is not).
Orphan(n) == [s \in Slots |-> IF n[s].caller = "form" THEN [n[s] EXCEPT !.caller = "dash"]
                              ELSE n[s]]
Abandon(n) == [s \in Slots |-> [n[s] EXCEPT !.caller = "gone"]]
Remounted(m) == [m EXCEPT !.error = "", !.loading = FALSE]
FormsAfter(m, ld, sw) == IF Hidden(ld, sw) THEN Remounted(m) ELSE m
NetAfter(n, ld, sw) == IF Hidden(ld, sw) THEN Orphan(n) ELSE n

\* prev.map(...) putting the entry in the place of every sweet.
MapReplaceEvery(prev, id, entry) ==
    [i \in 1..Len(prev) |-> entry]

\* prev.map((sweet) => (sweet.id === id ? entry : sweet))
MapReplace(prev, id, entry) ==
    [i \in 1..Len(prev) |-> IF prev[i].id = id THEN entry ELSE prev[i]]
\* prev.filter((sweet) => sweet.id !== id)
RECURSIVE FilterOut(_, _)
FilterOut(prev, id) ==
    IF prev = <<>> THEN <<>>
    ELSE IF Head(prev).id = id THEN FilterOut(Tail(prev), id)
    ELSE <<Head(prev)>> \o FilterOut(Tail(prev), id)

\* What reading sweet.id or sweet.quantity gives when the entry has no such
\* property (undefined); no id and no quantity is negative.
NoNumber == -1
\* A response.data that is no sweet (the empty text of a response without
\* body, another text, null), as an entry of the list.
NotASweet == [id |-> NoNumber, quantity |-> NoNumber]

\* response.data where one sweet is expected.
Entry(data) == IF data.kind = "record" THEN data.items[1] ELSE NotASweet

(***************************************************************************)
(* The order in which fetchSweets and searchSweets calls are issued, a     *)
(* history of the behaviours that start with it on (NoLatest) and left out *)
(* of the others (Unobserved).  `latest` names the slot of the call issued *)
(* last while it is under way; when that call returns before calls issued  *)
(* earlier, `latest` keeps the list and the error it came back with until  *)
(* those have returned.                                                    *)
(***************************************************************************)
NoLatest == [slot |-> 0, done |-> FALSE, list |-> <<>>, error |-> Null]
Unobserved == [NoLatest EXCEPT !.slot = -1]
IssuedIn(l, s) == IF l = Unobserved THEN l ELSE [NoLatest EXCEPT !.slot = s]
ListCalls(n) == {s \in Slots : n[s].st # "free" /\ n[s].op \in {"list", "search"}}
LatestAfter(l, s, n, list, err) ==
    IF l = Unobserved THEN l
    ELSE IF ListCalls(n) = {} THEN NoLatest
    ELSE IF l.slot = s THEN [slot |-> 0, done |-> TRUE, list |-> list, error |-> err]
    ELSE l

(***************************************************************************)
(* Initial states: the page is loaded with the AuthProvider not yet        *)
(* mounted.  The records of the server and the stored session are those    *)
(* left by earlier use.                                                    *)
(***************************************************************************)
InitPage(stores, sessions, l) ==
    /\ \E st \in stores : store = st.store /\ nextId = st.nextId
    /\ storage \in sessions
    /\ isLoggedIn = FALSE
    /\ user = NoUser
    /\ authLoading = TRUE
    /\ sweets = <<>>
    /\ loading = FALSE
    /\ error = Null
    /\ net = [s \in Slots |-> Idle]
    /\ modal = NoModal
    /\ searchQuery = EmptyText
    /\ logged = EmptyText
    /\ cards = [id \in Ids |-> FreshCard]
    /\ latest = l
InitWith(stores, sessions) == InitPage(stores, sessions, Unobserved)

(***************************************************************************)
(* SweetProvider.fetchSweets up to its await, as the Dashboard calls it.   *)
(***************************************************************************)
FetchStart(n, stg, caller) ==
    /\ loading' = TRUE
    /\ error' = Null
    /\ latest' = IssuedIn(latest, LowestFree(n))
    /\ LET req == [Sent("list", 0, <<>>, caller) EXCEPT !.auth = getAuthHeaders(stg)]
       IN  net' = NetAfter([n EXCEPT ![LowestFree(n)] = req], TRUE, sweets)

(***************************************************************************)
(* AuthProvider: the start-up effect, and logout.                          *)
(***************************************************************************)
\* The state the effect leaves: setIsLoggedIn(true) is called before
\* JSON.parse(userData) can throw.
AuthMountState(stg) ==
    IF stg.access_token # Null /\ stg.user_data # Null
    THEN IF Parses(stg.user_data)
         THEN [isLoggedIn |-> TRUE, user |-> <<Parse(stg.user_data)>>, storage |-> stg]
         ELSE [isLoggedIn |-> TRUE, user |-> NoUser, storage |-> NoSession]
    ELSE [isLoggedIn |-> FALSE, user |-> NoUser, storage |-> stg]

\* useEffect of AuthProvider; when it leaves the session logged in, AppRouter
\* mounts the Dashboard, whose effect calls fetchSweets.
AuthMount ==
    /\ authLoading
    /\ LET a == AuthMountState(storage)
       IN  /\ isLoggedIn' = a.isLoggedIn
           /\ user' = a.user
           /\ storage' = a.storage
           /\ authLoading' = FALSE
           /\ IF a.isLoggedIn
              THEN FetchStart(net, a.storage, "none")
              ELSE UNCHANGED <<loading, error, net, latest>>
    /\ UNCHANGED <<store, nextId, sweets, modal, searchQuery, logged, cards>>

\* logout() leaving the access token in storage.
logoutKeepingToken ==
    /\ Background
    /\ storage' = [storage EXCEPT !.refresh_token = Null, !.user_data = Null]
    /\ isLoggedIn' = FALSE
    /\ user' = NoUser
    /\ modal' = NoModal
    /\ searchQuery' = EmptyText
    /\ net' = Abandon(net)
    /\ cards' = CardsAfter(cards, sweets, FALSE)
    /\ UNCHANGED <<store, nextId, authLoading, sweets, loading, error, logged, latest>>

\* logout(), from the Dashboard header; the Dashboard is unmounted.
logout ==
    /\ Background
    /\ storage' = NoSession
    /\ isLoggedIn' = FALSE
    /\ user' = NoUser
    /\ modal' = NoModal
    /\ searchQuery' = EmptyText
    /\ net' = Abandon(net)
    /\ cards' = CardsAfter(cards, sweets, FALSE)
    /\ UNCHANGED <<store, nextId, authLoading, sweets, loading, error, logged, latest>>

\* logout() run in another tab of the browser: the stored session is removed,
\* the state of this page is not.
otherTabLogout ==
    /\ storage # NoSession
    /\ storage' = NoSession
    /\ UNCHANGED <<store, nextId, isLoggedIn, user, authLoading, sweets, loading,
                   error, net, modal, searchQuery, logged, cards, latest>>

\* LoginForm.handleSubmit / RegisterForm.handleSubmit: login(formData) or
\* register(formData) up to the await.
authSubmit(op, username) ==
    /\ View(authLoading, isLoggedIn) = "auth"
    /\ HasFreeSlot
    /\ net' = [net EXCEPT ![FreeSlot] = Sent(op, 0, [username |-> username], "none")]
    /\ UNCHANGED <<store, nextId, storage, isLoggedIn, user, authLoading, sweets,
                   loading, error, modal, searchQuery, logged, cards, latest>>
login(username) == authSubmit("login", username)
register(username) == authSubmit("register", username)

\* The authentication endpoint answers.
ServeAuth(s) ==
    /\ net[s].st = "sent" /\ net[s].op \in {"login", "register"}
    /\ net' = [net EXCEPT ![s].st = "replied", ![s].http = AuthHandle(net[s])]
    /\ UNCHANGED <<store, nextId, storage, isLoggedIn, user, authLoading, sweets,
                   loading, error, modal, searchQuery, logged, cards, latest>>

\* login / register after the await.  When the session becomes logged in,
\* AppRouter mounts the Dashboard, whose effect calls fetchSweets.
authResume(s, op, fallback) ==
    /\ Replied(s, op)
    /\ LET a == loginState(Response(s), storage, isLoggedIn, user, fallback)
       IN  /\ storage' = a.storage
           /\ isLoggedIn' = a.isLoggedIn
           /\ user' = a.user
           /\ IF a.isLoggedIn /\ ~isLoggedIn /\ ~authLoading
              THEN FetchStart(Returned(s), a.storage, "none")
              ELSE /\ net' = Returned(s)
                   /\ UNCHANGED <<loading, error, latest>>
    /\ UNCHANGED <<store, nextId, authLoading, sweets, modal, searchQuery, logged, cards>>
loginResume(s) == authResume(s, "login", "Login failed")
registerResume(s) == authResume(s, "register", "Registration failed")

\* The page is loaded again: the state of every component starts over, the
\* calls under way are cancelled, and localStorage stays.
appReload ==
    /\ ~authLoading
    /\ isLoggedIn' = FALSE
    /\ user' = NoUser
    /\ authLoading' = TRUE
    /\ sweets' = <<>>
    /\ loading' = FALSE
    /\ error' = Null
    /\ net' = [s \in Slots |-> Idle]
    /\ modal' = NoModal
    /\ searchQuery' = EmptyText
    /\ logged' = EmptyText
    /\ latest' = IF latest = Unobserved THEN latest ELSE NoLatest
    /\ cards' = CardsAfter(cards, sweets', FALSE)
    /\ UNCHANGED <<store, nextId, storage>>

(***************************************************************************)
(* Dashboard handlers.                                                     *)
(***************************************************************************)
\* onChange of the search input
setSearchQuery(q) ==
    /\ Background
    /\ searchQuery' = q
    /\ UNCHANGED <<store, nextId, storage, isLoggedIn, user, authLoading,
                   sweets, loading, error, net, modal, logged, cards, latest>>

\* handleSearch: a query that is not blank is only logged (the call of
\* searchSweets is commented out); a blank one reloads the list.
handleSearch ==
    /\ Background
    /\ IF Trim(searchQuery) # <<>>
       THEN /\ logged' = searchQuery
            /\ UNCHANGED <<loading, error, net, modal, latest>>
       ELSE /\ HasFreeSlot
            /\ FetchStart(net, storage, "none")
            /\ modal' = FormsAfter(modal, TRUE, sweets)
            /\ UNCHANGED logged
    /\ UNCHANGED <<store, nextId, storage, isLoggedIn, user, authLoading,
                   sweets, searchQuery, cards>>

\* handleEdit(sweet) / handleRestock(sweet): the admin buttons of a card
handleEdit(id) ==
    /\ Background /\ isAdmin /\ id \in CardIds
    /\ modal' = [kind |-> "edit", id |-> id, error |-> "", loading |-> FALSE]
    /\ UNCHANGED <<store, nextId, storage, isLoggedIn, user, authLoading,
                   sweets, loading, error, net, searchQuery, logged, cards, latest>>

handleRestock(id) ==
    /\ Background /\ isAdmin /\ id \in CardIds
    /\ modal' = [kind |-> "restock", id |-> id, error |-> "", loading |-> FALSE]
    /\ UNCHANGED <<store, nextId, storage, isLoggedIn, user, authLoading,
                   sweets, loading, error, net, searchQuery, logged, cards, latest>>

\* "Add New Sweet" / "Add the first sweet": rendered for isAdmin() only
showAddForm ==
    /\ Background /\ isAdmin
    /\ modal' = [kind |-> "add", id |-> 0, error |-> "", loading |-> FALSE]
    /\ UNCHANGED <<store, nextId, storage, isLoggedIn, user, authLoading,
                   sweets, loading, error, net, searchQuery, logged, cards, latest>>

closeModals ==
    /\ DashboardInteractive /\ modal.kind # "none"
    /\ modal' = NoModal
    /\ net' = Orphan(net)
    /\ UNCHANGED <<store, nextId, storage, isLoggedIn, user, authLoading,
                   sweets, loading, error, searchQuery, logged, cards, latest>>

\* clearError, the close button of the error alert of the Dashboard.
clearError ==
    /\ Background /\ error # Null
    /\ error' = Null
    /\ UNCHANGED <<store, nextId, storage, isLoggedIn, user, authLoading,
                   sweets, loading, net, modal, searchQuery, logged, cards, latest>>

\* handleDelete(sweetId), confirmed: deleteSweet up to its await
handleDelete(id) ==
    /\ Background /\ isAdmin /\ id \in CardIds
    /\ HasFreeSlot
    /\ net' = [net EXCEPT ![FreeSlot] = Sent("delete", id, <<>>, "none")]
    /\ UNCHANGED <<store, nextId, storage, isLoggedIn, user, authLoading,
                   sweets, loading, error, modal, searchQuery, logged, cards, latest>>

(***************************************************************************)
(* The sweet forms and the purchase button.                                *)
(***************************************************************************)
\* EditSweetForm.handleSubmit with the quantity check left out.
EditFormErrorNoQuantity(formData) ==
    IF Trim(formData.name) = <<>> THEN "Sweet name is required"
    ELSE IF Trim(formData.category) = <<>> THEN "Category is required"
    ELSE IF IsNaN(ParseFloat(formData.price)) \/ ParseFloat(formData.price).val <= 0
         THEN "Please enter a valid price greater than 0"
    ELSE IF IsNaN(ParseInt(formData.quantity))
         THEN "Please enter a valid quantity (0 or greater)"
    ELSE ""

\* EditSweetForm.handleSubmit with a price check that lets 0 through.
EditFormErrorPriceZero(formData) ==
    IF Trim(formData.name) = <<>> THEN "Sweet name is required"
    ELSE IF Trim(formData.category) = <<>> THEN "Category is required"
    ELSE IF IsNaN(ParseFloat(formData.price)) \/ ParseFloat(formData.price).val < 0
         THEN "Please enter a valid price greater than 0"
    ELSE IF IsNaN(ParseInt(formData.quantity)) \/ ParseInt(formData.quantity).val < 0
         THEN "Please enter a valid quantity (0 or greater)"
    ELSE ""

\* EditSweetForm.handleSubmit, the validation: the message set with setError,
\* or "" when the form data passes.
EditFormError(formData) ==
    IF Trim(formData.name) = <<>> THEN "Sweet name is required"
    ELSE IF Trim(formData.category) = <<>> THEN "Category is required"
    ELSE IF IsNaN(ParseFloat(formData.price)) \/ ParseFloat(formData.price).val <= 0
         THEN "Please enter a valid price greater than 0"
    ELSE IF IsNaN(ParseInt(formData.quantity)) \/ ParseInt(formData.quantity).val < 0
         THEN "Please enter a valid quantity (0 or greater)"
    ELSE ""

\* EditSweetForm.handleSubmit: {...formData, price, quantity}
EditSweetData(formData) ==
    [name |-> formData.name, category |-> formData.category,
     price |-> ParseFloat(formData.price).val, quantity |-> ParseInt(formData.quantity).val]

\* EditSweetForm.handleSubmit up to the await of updateSweet
EditSubmit(formData) ==
    /\ DashboardInteractive /\ modal.kind = "edit" /\ ~modal.loading
    /\ LET err == EditFormError(formData)
       IN  IF err # ""
           THEN /\ modal' = [modal EXCEPT !.error = err, !.loading = FALSE]
                /\ UNCHANGED net
           ELSE /\ HasFreeSlot
                /\ modal' = [modal EXCEPT !.error = "", !.loading = TRUE]
                /\ net' = [net EXCEPT ![FreeSlot] =
                              Sent("update", modal.id, backendData(EditSweetData(formData)), "form")]
    /\ UNCHANGED <<store, nextId, storage, isLoggedIn, user, authLoading,
                   sweets, loading, error, searchQuery, logged, cards, latest>>

\* RestockForm.handleSubmit with a validation that lets 0 through.
RestockFormErrorNegativeOnly(quantity) ==
    IF IsNaN(ParseInt(quantity)) \/ ParseInt(quantity).val < 0
    THEN "Please enter a valid quantity greater than 0"
    ELSE ""

\* RestockForm.handleSubmit, the validation
RestockFormError(quantity) ==
    IF IsNaN(ParseInt(quantity)) \/ ParseInt(quantity).val <= 0
    THEN "Please enter a valid quantity greater than 0"
    ELSE ""

\* RestockForm.handleSubmit up to the await of restockSweet
RestockSubmit(quantity) ==
    /\ DashboardInteractive /\ modal.kind = "restock" /\ ~modal.loading
    /\ LET err == RestockFormError(quantity)
       IN  IF err # ""
           THEN /\ modal' = [modal EXCEPT !.error = err, !.loading = FALSE]
                /\ UNCHANGED net
           ELSE /\ HasFreeSlot
                /\ modal' = [modal EXCEPT !.error = "", !.loading = TRUE]
                /\ net' = [net EXCEPT ![FreeSlot] =
                              Sent("restock", modal.id, quantityBody(ParseInt(quantity).val), "form")]
    /\ UNCHANGED <<store, nextId, storage, isLoggedIn, user, authLoading,
                   sweets, loading, error, searchQuery, logged, cards, latest>>

\* addSweet(sweetData) up to its await, called from the add form.
AddSubmit(sweetData) ==
    /\ DashboardInteractive /\ modal.kind = "add"
    /\ HasFreeSlot
    /\ net' = [net EXCEPT ![FreeSlot] = Sent("create", 0, backendData(sweetData), "form")]
    /\ UNCHANGED <<store, nextId, storage, isLoggedIn, user, authLoading,
                   sweets, loading, error, modal, searchQuery, logged, cards, latest>>

\* purchaseSweet(id, quantity) up to its await, called from the card of `id`.
purchaseSweet(id, quantity) ==
    /\ Background /\ Purchasable(id)
    /\ HasFreeSlot
    /\ net' = [net EXCEPT ![FreeSlot] = Sent("purchase", id, quantityBody(quantity), "none")]
    /\ UNCHANGED <<store, nextId, storage, isLoggedIn, user, authLoading,
                   sweets, loading, error, modal, searchQuery, logged, cards, latest>>

\* The sweet the card of `id` is given.
CardSweet(id) == sweets[CHOOSE i \in 1..Len(sweets) : sweets[i].id = id]

\* SweetCard.handleQuantityChange: parseInt(e.target.value) || 1, then
\* Math.min(Math.max(1, value), sweet.quantity)
ClampedQuantity(text, quantity) ==
    LET parsed == ParseInt(text)
        value == IF IsNaN(parsed) \/ parsed.val = 0 THEN 1 ELSE parsed.val
        atLeastOne == IF value < 1 THEN 1 ELSE value
    IN  IF atLeastOne > quantity THEN quantity ELSE atLeastOne

\* onChange of the quantity input of the card of `id`.
handleQuantityChange(id, text) ==
    /\ Background /\ Purchasable(id)
    /\ cards' = [cards EXCEPT ![id].purchaseQuantity =
                    ClampedQuantity(text, CardSweet(id).quantity)]
    /\ UNCHANGED <<store, nextId, storage, isLoggedIn, user, authLoading,
                   sweets, loading, error, net, modal, searchQuery, logged, latest>>

\* SweetCard.handlePurchase up to the await inside purchaseSweet; the button
\* is disabled while the card is loading.
handlePurchase(id) ==
    /\ Background /\ Purchasable(id)
    /\ ~cards[id].loading
    /\ HasFreeSlot
    /\ net' = [net EXCEPT ![FreeSlot] =
                    Sent("purchase", id, quantityBody(cards[id].purchaseQuantity), "card")]
    /\ cards' = [cards EXCEPT ![id].loading = TRUE]
    /\ UNCHANGED <<store, nextId, storage, isLoggedIn, user, authLoading,
                   sweets, loading, error, modal, searchQuery, logged, latest>>

\* searchSweets(query) up to its await.
searchSweets(query) ==
    /\ Background
    /\ HasFreeSlot
    /\ loading' = TRUE
    /\ error' = Null
    /\ latest' = IssuedIn(latest, FreeSlot)
    /\ net' = NetAfter([net EXCEPT ![FreeSlot] = Sent("search", 0, [q |-> query], "none")],
                       TRUE, sweets)
    /\ UNCHANGED <<store, nextId, storage, isLoggedIn, user, authLoading,
                   sweets, modal, searchQuery, logged, cards>>

(***************************************************************************)
(* The server handles one request.                                         *)
(***************************************************************************)
Serve(s, op) ==
    /\ net[s].st = "sent" /\ net[s].op = op
    /\ (op = "create" /\ Handle(store, nextId, net[s]).http.ok) => nextId <= MaxId
    /\ (op = "restock" /\ net[s].id \in DOMAIN store)
            => store[net[s].id].quantity_in_stock + net[s].body.quantity <= MaxStock
    /\ LET h == Handle(store, nextId, net[s])
       IN  /\ store' = h.store
           /\ nextId' = IF op = "create" /\ h.http.ok THEN nextId + 1 ELSE nextId
           /\ net' = [net EXCEPT ![s].st = "replied", ![s].http = h.http]
    /\ UNCHANGED <<storage, isLoggedIn, user, authLoading, sweets, loading, error,
                   modal, searchQuery, logged, cards, latest>>

\* The fetch of the call in slot s ends in `http` without the inventory
\* service having handled the request.
Transport(s, http) ==
    /\ net[s].st = "sent"
    /\ net' = [net EXCEPT ![s].st = "replied", ![s].http = http]
    /\ UNCHANGED <<store, nextId, storage, isLoggedIn, user, authLoading, sweets,
                   loading, error, modal, searchQuery, logged, cards, latest>>

ServeList(s) == Serve(s, "list")
ServeSearch(s) == Serve(s, "search")
ServeCreate(s) == Serve(s, "create")
ServeUpdate(s) == Serve(s, "update")
ServeDelete(s) == Serve(s, "delete")
ServePurchase(s) == Serve(s, "purchase")
ServeRestock(s) == Serve(s, "restock")

(***************************************************************************)
(* SweetProvider: what each context function does once its response is     *)
(* there (the new list, and the result it returns to its caller).          *)
(***************************************************************************)
Success(message) == [success |-> TRUE, error |-> Undefined, message |-> message]
Failure(err) == [success |-> FALSE, error |-> err, message |-> Undefined]

\* fetchSweets / searchSweets
fetchSweetsList(resp) ==
    IF resp.success /\ IsArray(resp.data) THEN resp.data.items ELSE <<>>
fetchSweetsError(err, resp, fallback) ==
    IF resp.success THEN err ELSE OrElse(resp.error, fallback)

addSweetList(prev, resp) ==
    IF resp.success THEN Append(prev, Entry(resp.data)) ELSE prev
addSweetResult(resp) ==
    IF resp.success THEN Success(Undefined)
    ELSE Failure(OrElse(resp.error, "Failed to add sweet"))

\* updateSweet dropping the entry when the update fails.
updateSweetListDropping(prev, id, resp) ==
    IF resp.success THEN MapReplace(prev, id, Entry(resp.data)) ELSE FilterOut(prev, id)

updateSweetList(prev, id, resp) ==
    IF resp.success THEN MapReplace(prev, id, Entry(resp.data)) ELSE prev
updateSweetResult(resp) ==
    IF resp.success THEN Success(Undefined)
    ELSE Failure(OrElse(resp.error, "Failed to update sweet"))

deleteSweetList(prev, id, resp) ==
    IF resp.success THEN FilterOut(prev, id) ELSE prev
\* deleteSweet reporting success whatever the response.
deleteSweetResultAlways(resp) == Success(Undefined)

deleteSweetResult(resp) ==
    IF resp.success THEN Success(Undefined)
    ELSE Failure(OrElse(resp.error, "Failed to delete sweet"))

purchaseSweetList(prev, id, resp) ==
    IF resp.success /\ Truthy(resp.data) THEN MapReplace(prev, id, Entry(resp.data)) ELSE prev
\* purchaseSweet reporting success whatever the response.
purchaseSweetResultAlways(resp) == Success("Purchase successful!")

purchaseSweetResult(resp) ==
    IF resp.success THEN Success("Purchase successful!")
    ELSE Failure(OrElse(resp.error, "Failed to purchase sweet"))

\* restockSweet keeping the restocked sweet alone.
restockSweetListAlone(prev, id, resp) ==
    IF resp.success THEN <<Entry(resp.data)>> ELSE prev

restockSweetList(prev, id, resp) ==
    IF resp.success THEN MapReplace(prev, id, Entry(resp.data)) ELSE prev
restockSweetResult(resp) ==
    IF resp.success THEN Success("Restock successful!")
    ELSE Failure(OrElse(resp.error, "Failed to restock sweet"))

\* The rest of EditSweetForm.handleSubmit / RestockForm.handleSubmit after the
\* await: onClose() on success, setError(result.error || fallback) otherwise.
FormTailModal(caller, result, fallback) ==
    IF caller = "form"
    THEN IF result.success THEN NoModal
         ELSE [modal EXCEPT !.error = OrElse(result.error, fallback), !.loading = FALSE]
    ELSE IF caller = "dash" /\ result.success THEN NoModal
    ELSE modal
FormTailNet(n, caller, result) ==
    IF caller \in {"form", "dash"} /\ result.success THEN Orphan(n) ELSE n

fetchSweetsResume(s) ==
    /\ Replied(s, "list")
    /\ sweets' = fetchSweetsList(Response(s))
    /\ error' = fetchSweetsError(error, Response(s), "Failed to fetch sweets")
    /\ loading' = FALSE
    /\ latest' = LatestAfter(latest, s, Returned(s), fetchSweetsList(Response(s)),
                              fetchSweetsError(Null, Response(s), "Failed to fetch sweets"))
    /\ net' = CardCallsAfter(Returned(s), sweets')
    /\ cards' = CardsAfter(CardTail(cards, net[s], Success("Purchase successful!")),
                           sweets', DashboardShown)
    /\ UNCHANGED <<store, nextId, storage, isLoggedIn, user, authLoading,
                   modal, searchQuery, logged>>

searchSweetsResume(s) ==
    /\ Replied(s, "search")
    /\ sweets' = fetchSweetsList(Response(s))
    /\ error' = fetchSweetsError(error, Response(s), "Failed to search sweets")
    /\ loading' = FALSE
    /\ latest' = LatestAfter(latest, s, Returned(s), fetchSweetsList(Response(s)),
                              fetchSweetsError(Null, Response(s), "Failed to search sweets"))
    /\ net' = CardCallsAfter(Returned(s), sweets')
    /\ cards' = CardsAfter(cards, sweets', DashboardShown)
    /\ UNCHANGED <<store, nextId, storage, isLoggedIn, user, authLoading,
                   modal, searchQuery, logged>>

addSweetResume(s) ==
    /\ Replied(s, "create")
    /\ sweets' = addSweetList(sweets, Response(s))
    /\ net' = CardCallsAfter(Returned(s), sweets')
    /\ cards' = CardsAfter(cards, sweets', DashboardShown)
    /\ UNCHANGED <<store, nextId, storage, isLoggedIn, user, authLoading,
                   loading, error, modal, searchQuery, logged, latest>>

updateSweetResume(s) ==
    /\ Replied(s, "update")
    /\ sweets' = updateSweetList(sweets, net[s].id, Response(s))
    /\ modal' = FormTailModal(net[s].caller, updateSweetResult(Response(s)),
                              "Failed to update sweet")
    /\ net' = CardCallsAfter(FormTailNet(Returned(s), net[s].caller,
                                       updateSweetResult(Response(s))), sweets')
    /\ cards' = CardsAfter(cards, sweets', DashboardShown)
    /\ UNCHANGED <<store, nextId, storage, isLoggedIn, user, authLoading,
                   loading, error, searchQuery, logged, latest>>

restockSweetResume(s) ==
    /\ Replied(s, "restock")
    /\ sweets' = restockSweetList(sweets, net[s].id, Response(s))
    /\ modal' = FormTailModal(net[s].caller, restockSweetResult(Response(s)),
                              "Failed to restock sweet")
    /\ net' = CardCallsAfter(FormTailNet(Returned(s), net[s].caller,
                                       restockSweetResult(Response(s))), sweets')
    /\ cards' = CardsAfter(cards, sweets', DashboardShown)
    /\ UNCHANGED <<store, nextId, storage, isLoggedIn, user, authLoading,
                   loading, error, searchQuery, logged, latest>>

deleteSweetResume(s) ==
    /\ Replied(s, "delete")
    /\ sweets' = deleteSweetList(sweets, net[s].id, Response(s))
    /\ modal' = FormsAfter(modal, loading, sweets')
    /\ net' = CardCallsAfter(NetAfter(Returned(s), loading, sweets'), sweets')
    /\ cards' = CardsAfter(cards, sweets', DashboardShown)
    /\ UNCHANGED <<store, nextId, storage, isLoggedIn, user, authLoading,
                   loading, error, searchQuery, logged, latest>>

\* purchaseSweet after its await; without response.data it goes on to
\* `await fetchSweets()` and returns when that is done.
purchaseSweetResume(s) ==
    /\ Replied(s, "purchase")
    /\ sweets' = purchaseSweetList(sweets, net[s].id, Response(s))
    /\ IF Response(s).success /\ ~Truthy(Response(s).data)
       THEN /\ loading' = TRUE
            /\ error' = Null
            /\ net' = NetAfter([net EXCEPT ![s].st = "sent", ![s].op = "list",
                                           ![s].body = <<>>,
                                           ![s].caller = IF @ = "card" THEN "cardfetch"
                                                         ELSE "purchase",
                                           ![s].auth = getAuthHeaders(storage)],
                               TRUE, sweets)
            /\ modal' = FormsAfter(modal, TRUE, sweets)
            /\ latest' = IssuedIn(latest, s)
            /\ UNCHANGED cards
       ELSE /\ net' = CardCallsAfter(Returned(s), sweets')
            /\ cards' = CardsAfter(CardTail(cards, net[s], purchaseSweetResult(Response(s))),
                                   sweets', DashboardShown)
            /\ UNCHANGED <<loading, error, modal, latest>>
    /\ UNCHANGED <<store, nextId, storage, isLoggedIn, user, authLoading, searchQuery, logged>>

(***************************************************************************)
(* Data of the scenarios.                                                  *)
(***************************************************************************)
NameChoc == <<"C", "h", "o", "c">>
NameGum == <<"G", "u", "m">>
CatBar == <<"B", "a", "r">>
CatChoc == <<"C", "H", "O", "C">>
Blank == <<" ">>
PriceOne == 1 * PriceScale

Rec(id, name, category, price, quantity) ==
    [id |-> id, name |-> name, category |-> category, price |-> price,
     quantity_in_stock |-> quantity]
OneRecord(rec) == [i \in {rec.id} |-> rec]
StockOf(st, id) == st[id].quantity_in_stock
\* The store with the stock of `id` set to q and nothing else touched.
WithStock(st, id, q) == [st EXCEPT ![id].quantity_in_stock = q]
Choc(q) == Rec(1, NameChoc, CatBar, PriceOne, q)
Gum == Rec(2, NameGum, CatChoc, PriceOne, 1)

\* The server before the page is loaded: "Choc" with some stock, and "Gum".
StockStores ==
    {[store |-> Put(OneRecord(Choc(q)), Gum), nextId |-> 3] : q \in 0..MaxStock}

AdminSession == Session(AdminToken, UserA)
UserSession == Session(UserToken, UserU)
\* An account that lost its admin role after login: the stored user data still
\* carries the flags.
DemotedSession == Session(UserToken, UserA)

\* Texts typed into a quantity field; quantities chosen on a card.
QuantityTexts == {<<>>, <<"0">>, <<"1">>, <<"-", "1">>, <<"2", ".", "5">>, <<"x">>}
BuyQuantities == {1, MaxStock}

(***************************************************************************)
(* Spec: an admin or a user buys "Choc" and "Gum".                         *)
(***************************************************************************)
Init == InitWith(StockStores, {AdminSession, UserSession})

Next ==
    \/ AuthMount
    \/ \E id \in DOMAIN store, q \in BuyQuantities : purchaseSweet(id, q)
    \/ \E s \in Slots : ServeList(s)
    \/ \E s \in Slots : ServePurchase(s)
    \/ \E s \in Slots : fetchSweetsResume(s)
    \/ \E s \in Slots : purchaseSweetResume(s)

Spec == Init /\ [][Next]_vars

(***************************************************************************)
(* SpecRestock: an admin restocks "Choc" through the restock form.         *)
(***************************************************************************)
InitRestock == InitWith(StockStores, {AdminSession})

NextRestock ==
    \/ AuthMount
    \/ handleRestock(1)
    \/ closeModals
    \/ \E t \in QuantityTexts : RestockSubmit(t)
    \/ \E s \in Slots : ServeList(s)
    \/ \E s \in Slots : ServeRestock(s)
    \/ \E s \in Slots : fetchSweetsResume(s)
    \/ \E s \in Slots : restockSweetResume(s)

SpecRestock == InitRestock /\ [][NextRestock]_vars

(***************************************************************************)
(* SpecEdit: an admin, or an account that is no longer one, edits the      *)
(* stock of "Choc" and buys it.                                            *)
(***************************************************************************)
EditForm(name, category, price, quantity) ==
    [name |-> name, category |-> category, price |-> price, quantity |-> quantity]
StockForms ==
    {EditForm(NameChoc, CatBar, <<"1">>, t) : t \in {<<"0">>, <<"2">>, <<"-", "1">>}}

InitEdit == InitWith(StockStores, {AdminSession, DemotedSession})

NextEdit ==
    \/ AuthMount
    \/ handleEdit(1)
    \/ closeModals
    \/ \E f \in StockForms : EditSubmit(f)
    \/ \E q \in BuyQuantities : purchaseSweet(1, q)
    \/ \E s \in Slots : ServeList(s)
    \/ \E s \in Slots : ServeUpdate(s)
    \/ \E s \in Slots : ServePurchase(s)
    \/ \E s \in Slots : fetchSweetsResume(s)
    \/ \E s \in Slots : updateSweetResume(s)
    \/ \E s \in Slots : purchaseSweetResume(s)

SpecEdit == InitEdit /\ [][NextEdit]_vars

(***************************************************************************)
(* SpecFields: an admin submits the edit form of "Choc" and adds sweets,   *)
(* with fields that are valid or not.                                      *)
(***************************************************************************)
FieldForms ==
    {EditForm(NameChoc, CatBar, <<"1">>, t) : t \in {<<"2">>, <<"-", "1">>, <<"x">>}}
    \cup {EditForm(NameChoc, CatBar, t, <<"2">>) : t \in {<<"0">>, <<"-", "1">>, <<>>}}
    \cup {EditForm(Blank, CatBar, <<"1">>, <<"2">>), EditForm(NameChoc, <<>>, <<"1">>, <<"2">>)}

NewSweet(name, category, price, quantity) ==
    [name |-> name, category |-> category, price |-> price, quantity |-> quantity]
NewSweets ==
    {NewSweet(NameGum, CatBar, PriceOne, 1), NewSweet(Blank, CatBar, PriceOne, 1),
     NewSweet(NameGum, CatBar, 0, 1), NewSweet(NameGum, CatBar, PriceOne, -1)}

InitFields ==
    InitWith({[store |-> Put(OneRecord(Choc(1)), Gum), nextId |-> 3]}, {AdminSession})

NextFields ==
    \/ AuthMount
    \/ handleEdit(1)
    \/ showAddForm
    \/ closeModals
    \/ \E f \in FieldForms : EditSubmit(f)
    \/ \E d \in NewSweets : AddSubmit(d)
    \/ \E s \in Slots : ServeList(s)
    \/ \E s \in Slots : ServeCreate(s)
    \/ \E s \in Slots : ServeUpdate(s)
    \/ \E s \in Slots : fetchSweetsResume(s)
    \/ \E s \in Slots : addSweetResume(s)
    \/ \E s \in Slots : updateSweetResume(s)

SpecFields == InitFields /\ [][NextFields]_vars

(***************************************************************************)
(* SpecRace: "Choc" has RaceStock units and two purchases of it are issued *)
(* before either is served.                                                *)
(***************************************************************************)
InitRace ==
    InitWith({[store |-> OneRecord(Choc(RaceStock)), nextId |-> 2]},
             {AdminSession, UserSession})

PurchasesIssued == {s \in Slots : net[s].st # "free" /\ net[s].op = "purchase"}

\* purchaseSweet(1, q), called while no purchase has been served and at most
\* one other purchase is under way.
RacePurchase(q) ==
    /\ StockOf(store, 1) = RaceStock
    /\ Cardinality(PurchasesIssued) <= 1
    /\ purchaseSweet(1, q)

NextRace ==
    \/ AuthMount
    \/ \E q \in 1..RaceQty : RacePurchase(q)
    \/ \E s \in Slots : ServeList(s)
    \/ \E s \in Slots : ServePurchase(s)
    \/ \E s \in Slots : fetchSweetsResume(s)
    \/ \E s \in Slots : purchaseSweetResume(s)

SpecRace == InitRace /\ [][NextRace]_vars

(***************************************************************************)
(* SpecDelete: an admin deletes "Choc" while other operations on it are    *)
(* under way, and reloads the list.                                        *)
(***************************************************************************)
InitDelete == InitWith({[store |-> OneRecord(Choc(1)), nextId |-> 2]}, {AdminSession})

\* The search button pressed, with an empty query, while no load of the list
\* is under way.
Reload == (\A s \in Slots : net[s].op # "list") /\ handleSearch

NextDelete ==
    \/ AuthMount
    \/ Reload
    \/ handleEdit(1)
    \/ handleRestock(1)
    \/ closeModals
    \/ handleDelete(1)
    \/ EditSubmit(EditForm(NameChoc, CatBar, <<"1">>, <<"2">>))
    \/ RestockSubmit(<<"1">>)
    \/ purchaseSweet(1, 1)
    \/ \E s \in Slots : ServeList(s)
    \/ \E s \in Slots : ServeUpdate(s)
    \/ \E s \in Slots : ServeDelete(s)
    \/ \E s \in Slots : ServePurchase(s)
    \/ \E s \in Slots : ServeRestock(s)
    \/ \E s \in Slots : fetchSweetsResume(s)
    \/ \E s \in Slots : updateSweetResume(s)
    \/ \E s \in Slots : deleteSweetResume(s)
    \/ \E s \in Slots : purchaseSweetResume(s)
    \/ \E s \in Slots : restockSweetResume(s)

SpecDelete == InitDelete /\ [][NextDelete]_vars

(***************************************************************************)
(* SpecAnon: the page is loaded with no session, with a session whose      *)
(* token has expired, or with the session of an admin that is then removed *)
(* from storage; every operation is tried with what is left.               *)
(***************************************************************************)
InitAnon ==
    InitWith({[store |-> OneRecord(Choc(1)), nextId |-> 2]},
             {NoSession, AdminSession, Session(ExpiredToken, UserA)})

\* The requests of this moment carry no token the server accepts.
Anonymous == RoleOf(getAuthHeaders(storage)) = "anonymous"

ValidEdit == EditForm(NameChoc, CatBar, <<"1">>, <<"2">>)
ValidSweet == NewSweet(NameGum, CatBar, PriceOne, 1)

NextAnon ==
    \/ AuthMount
    \/ logout
    \/ otherTabLogout
    \/ Anonymous /\ Reload
    \/ Anonymous /\ handleEdit(1)
    \/ Anonymous /\ handleRestock(1)
    \/ Anonymous /\ showAddForm
    \/ closeModals
    \/ Anonymous /\ handleDelete(1)
    \/ Anonymous /\ EditSubmit(ValidEdit)
    \/ Anonymous /\ RestockSubmit(<<"1">>)
    \/ Anonymous /\ AddSubmit(ValidSweet)
    \/ Anonymous /\ purchaseSweet(1, 1)
    \/ \E s \in Slots : ServeList(s)
    \/ \E s \in Slots : ServeCreate(s)
    \/ \E s \in Slots : ServeUpdate(s)
    \/ \E s \in Slots : ServeDelete(s)
    \/ \E s \in Slots : ServePurchase(s)
    \/ \E s \in Slots : ServeRestock(s)
    \/ \E s \in Slots : fetchSweetsResume(s)
    \/ \E s \in Slots : addSweetResume(s)
    \/ \E s \in Slots : updateSweetResume(s)
    \/ \E s \in Slots : deleteSweetResume(s)
    \/ \E s \in Slots : purchaseSweetResume(s)
    \/ \E s \in Slots : restockSweetResume(s)

SpecAnon == InitAnon /\ [][NextAnon]_vars

(***************************************************************************)
(* SpecUser: the page is loaded with the session of a user, or of an       *)
(* account that is no longer an admin, and every operation the page offers *)
(* is tried.                                                               *)
(***************************************************************************)
InitUser ==
    InitWith({[store |-> OneRecord(Choc(1)), nextId |-> 2]},
             {UserSession, DemotedSession})

NextUser ==
    \/ AuthMount
    \/ Reload
    \/ searchSweets(NameChoc)
    \/ handleEdit(1)
    \/ handleRestock(1)
    \/ showAddForm
    \/ closeModals
    \/ handleDelete(1)
    \/ EditSubmit(ValidEdit)
    \/ RestockSubmit(<<"1">>)
    \/ AddSubmit(ValidSweet)
    \/ purchaseSweet(1, 1)
    \/ \E s \in Slots : ServeList(s)
    \/ \E s \in Slots : ServeSearch(s)
    \/ \E s \in Slots : ServeCreate(s)
    \/ \E s \in Slots : ServeUpdate(s)
    \/ \E s \in Slots : ServeDelete(s)
    \/ \E s \in Slots : ServePurchase(s)
    \/ \E s \in Slots : ServeRestock(s)
    \/ \E s \in Slots : fetchSweetsResume(s)
    \/ \E s \in Slots : searchSweetsResume(s)
    \/ \E s \in Slots : addSweetResume(s)
    \/ \E s \in Slots : updateSweetResume(s)
    \/ \E s \in Slots : deleteSweetResume(s)
    \/ \E s \in Slots : purchaseSweetResume(s)
    \/ \E s \in Slots : restockSweetResume(s)

SpecUser == InitUser /\ [][NextUser]_vars

(***************************************************************************)
(* SpecSearch: a user types into the search box and submits the search     *)
(* form.                                                                   *)
(***************************************************************************)
NameMint == <<"M", "i", "n", "t">>
QueryChoc == <<"c", "h", "o", "c">>
Mint == Rec(3, NameMint, CatBar, PriceOne, 1)

InitSearch ==
    InitWith({[store |-> Put(Put(OneRecord(Choc(1)), Gum), Mint), nextId |-> 4]},
             {UserSession})

SearchQueries == {EmptyText, Blank, QueryChoc, NameMint}

NextSearch ==
    \/ AuthMount
    \/ \E q \in SearchQueries : setSearchQuery(q)
    \/ handleSearch
    \/ \E s \in Slots : ServeList(s)
    \/ \E s \in Slots : fetchSweetsResume(s)

SpecSearch == InitSearch /\ [][NextSearch]_vars

(***************************************************************************)
(* SpecList: an admin adds sweets, deletes "Choc", and loads the list       *)
(* again, by fetchSweets and by searchSweets with the empty query.         *)
(***************************************************************************)
InitList == InitWith({[store |-> Put(OneRecord(Choc(1)), Gum), nextId |-> 3]}, {AdminSession})

NextList ==
    \/ AuthMount
    \/ Reload
    \/ searchSweets(EmptyText)
    \/ showAddForm
    \/ closeModals
    \/ AddSubmit(ValidSweet)
    \/ handleDelete(1)
    \/ \E s \in Slots : ServeList(s)
    \/ \E s \in Slots : ServeSearch(s)
    \/ \E s \in Slots : ServeCreate(s)
    \/ \E s \in Slots : ServeDelete(s)
    \/ \E s \in Slots : fetchSweetsResume(s)
    \/ \E s \in Slots : searchSweetsResume(s)
    \/ \E s \in Slots : addSweetResume(s)
    \/ \E s \in Slots : deleteSweetResume(s)

SpecList == InitList /\ [][NextList]_vars

(***************************************************************************)
(* SpecIds: an admin edits, restocks and buys "Choc", adds sweets and      *)
(* searches for "Choc"; no form is closed before it is done.               *)
(***************************************************************************)
InitIds == InitWith({[store |-> Put(OneRecord(Choc(1)), Gum), nextId |-> 3]}, {AdminSession})

NextIds ==
    \/ AuthMount
    \/ showAddForm
    \/ handleEdit(1)
    \/ handleRestock(1)
    \/ AddSubmit(ValidSweet)
    \/ EditSubmit(ValidEdit)
    \/ RestockSubmit(<<"1">>)
    \/ purchaseSweet(1, 1)
    \/ searchSweets(NameChoc)
    \/ \E s \in Slots : ServeList(s)
    \/ \E s \in Slots : ServeSearch(s)
    \/ \E s \in Slots : ServeCreate(s)
    \/ \E s \in Slots : ServeUpdate(s)
    \/ \E s \in Slots : ServePurchase(s)
    \/ \E s \in Slots : ServeRestock(s)
    \/ \E s \in Slots : fetchSweetsResume(s)
    \/ \E s \in Slots : searchSweetsResume(s)
    \/ \E s \in Slots : addSweetResume(s)
    \/ \E s \in Slots : updateSweetResume(s)
    \/ \E s \in Slots : purchaseSweetResume(s)
    \/ \E s \in Slots : restockSweetResume(s)

SpecIds == InitIds /\ [][NextIds]_vars

(***************************************************************************)
(* SpecFrame: an admin buys "Choc" and edits and restocks "Gum", with      *)
(* calls on the two under way together; no form is closed before it is     *)
(* done.                                                                   *)
(***************************************************************************)
InitFrame == InitWith(StockStores, {AdminSession})

NextFrame ==
    \/ AuthMount
    \/ handleEdit(2)
    \/ handleRestock(2)
    \/ EditSubmit(ValidEdit)
    \/ RestockSubmit(<<"1">>)
    \/ purchaseSweet(1, 1)
    \/ \E s \in Slots : ServeList(s)
    \/ \E s \in Slots : ServeUpdate(s)
    \/ \E s \in Slots : ServePurchase(s)
    \/ \E s \in Slots : ServeRestock(s)
    \/ \E s \in Slots : fetchSweetsResume(s)
    \/ \E s \in Slots : updateSweetResume(s)
    \/ \E s \in Slots : purchaseSweetResume(s)
    \/ \E s \in Slots : restockSweetResume(s)

SpecFrame == InitFrame /\ [][NextFrame]_vars

(***************************************************************************)
(* SpecRequest: a user loads the list and buys "Choc" over a network that  *)
(* may fail, behind a gateway that may answer in the server's place; the   *)
(* stored session may be removed by a logout in another tab.               *)
(***************************************************************************)
InitRequest == InitWith({[store |-> OneRecord(Choc(1)), nextId |-> 2]}, {UserSession})

TransportOutcomes ==
    {NoResponse("Failed to fetch"), NoResponse(""),
     Outcome(FALSE, 502, "garbled", Undefined, Undefined),
     Outcome(TRUE, 200, "null", Undefined, Undefined),
     Outcome(FALSE, 500, "null", Undefined, Undefined),
     Outcome(FALSE, 502, "text", Undefined, Undefined),
     Outcome(FALSE, 400, "error", "Out of stock", Undefined)}

NextRequest ==
    \/ AuthMount
    \/ otherTabLogout
    \/ Reload
    \/ purchaseSweet(1, 1)
    \/ \E s \in Slots : ServeList(s)
    \/ \E s \in Slots : ServePurchase(s)
    \/ \E s \in Slots, o \in TransportOutcomes : Transport(s, o)
    \/ \E s \in Slots : fetchSweetsResume(s)
    \/ \E s \in Slots : purchaseSweetResume(s)

SpecRequest == InitRequest /\ [][NextRequest]_vars

(***************************************************************************)
(* SpecRetry: a user buys "Choc" while the network may fail, a gateway may *)
(* answer in the server's place, and the stored session may be removed by  *)
(* a logout in another tab.                                                *)
(***************************************************************************)
InitRetry == InitWith({[store |-> OneRecord(Choc(1)), nextId |-> 2]}, {UserSession})

RetryOutcomes == {NoResponse(""), Outcome(FALSE, 502, "text", Undefined, Undefined)}

NextRetry ==
    \/ AuthMount
    \/ otherTabLogout
    \/ \E q \in BuyQuantities : purchaseSweet(1, q)
    \/ \E s \in Slots : ServeList(s)
    \/ \E s \in Slots : ServePurchase(s)
    \/ \E s \in Slots, o \in RetryOutcomes : Transport(s, o)
    \/ \E s \in Slots : fetchSweetsResume(s)
    \/ \E s \in Slots : purchaseSweetResume(s)

SpecRetry == InitRetry /\ [][NextRetry]_vars

(***************************************************************************)
(* SpecSession: accounts log in, register and log out, and the page is     *)
(* loaded again at any moment; the network may fail.                       *)
(***************************************************************************)
InitSession == InitWith({[store |-> OneRecord(Choc(1)), nextId |-> 2]}, {NoSession, UserSession})

SessionOutcomes == {NoResponse(""), Outcome(TRUE, 200, "text", Undefined, Undefined)}

NextSession ==
    \/ AuthMount
    \/ appReload
    \/ logout
    \/ \E c \in Credentials : login(c)
    \/ \E c \in Credentials : register(c)
    \/ \E s \in Slots : ServeAuth(s)
    \/ \E s \in Slots : ServeList(s)
    \/ \E s \in Slots, o \in SessionOutcomes : Transport(s, o)
    \/ \E s \in Slots : loginResume(s)
    \/ \E s \in Slots : registerResume(s)
    \/ \E s \in Slots : fetchSweetsResume(s)

SpecSession == InitSession /\ [][NextSession]_vars

(***************************************************************************)
(* SpecFetch: a user loads the list and searches, pressing the search      *)
(* button again while a load is under way; the network may fail and a      *)
(* gateway may answer in the server's place.                               *)
(***************************************************************************)
InitFetch ==
    InitWith({[store |-> Put(OneRecord(Choc(1)), Gum), nextId |-> 3]}, {UserSession})

FetchOutcomes ==
    {NoResponse(""),
     Outcome(FALSE, 500, "error", Undefined, "Server error"),
     Outcome(TRUE, 200, "text", Undefined, Undefined),
     Outcome(TRUE, 200, "null", Undefined, Undefined)}

NextFetch ==
    \/ AuthMount
    \/ handleSearch
    \/ clearError
    \/ \E q \in {EmptyText, NameGum} : searchSweets(q)
    \/ \E s \in Slots : ServeList(s)
    \/ \E s \in Slots : ServeSearch(s)
    \/ \E s \in Slots, o \in FetchOutcomes : Transport(s, o)
    \/ \E s \in Slots : fetchSweetsResume(s)
    \/ \E s \in Slots : searchSweetsResume(s)

SpecFetch == InitFetch /\ [][NextFetch]_vars


(***************************************************************************)
(* SpecRestore: the page is loaded over what localStorage holds (no        *)
(* session, a session, a session whose user_data is no JSON text), and the *)
(* account logs out and in.                                                *)
(***************************************************************************)
CorruptSession == [UserSession EXCEPT !.user_data = "corrupt"]

InitRestore ==
    InitWith({[store |-> OneRecord(Choc(1)), nextId |-> 2]},
             {NoSession, UserSession, CorruptSession})

NextRestore ==
    \/ AuthMount
    \/ appReload
    \/ logout
    \/ \E c \in Credentials : login(c)
    \/ \E s \in Slots : ServeAuth(s)
    \/ \E s \in Slots : ServeList(s)
    \/ \E s \in Slots : loginResume(s)
    \/ \E s \in Slots : fetchSweetsResume(s)

SpecRestore == InitRestore /\ [][NextRestore]_vars


(***************************************************************************)
(* SpecStock: an admin buys "Choc" and restocks it, the calls under way    *)
(* together.                                                               *)
(***************************************************************************)
InitStock == InitWith({[store |-> OneRecord(Choc(2)), nextId |-> 2]}, {AdminSession})

NextStock ==
    \/ AuthMount
    \/ handlePurchase(1)
    \/ handleRestock(1)
    \/ RestockSubmit(<<"1">>)
    \/ \E s \in Slots : ServeList(s)
    \/ \E s \in Slots : ServePurchase(s)
    \/ \E s \in Slots : ServeRestock(s)
    \/ \E s \in Slots : fetchSweetsResume(s)
    \/ \E s \in Slots : purchaseSweetResume(s)
    \/ \E s \in Slots : restockSweetResume(s)

SpecStock == InitStock /\ [][NextStock]_vars


(***************************************************************************)
(* SpecOverlap: a user loads the list and searches while earlier loads are *)
(* under way, over a network that may fail; the order in which the calls   *)
(* are issued is kept.                                                     *)
(***************************************************************************)
InitOverlap ==
    InitPage({[store |-> Put(OneRecord(Choc(1)), Gum), nextId |-> 3]}, {UserSession},
             NoLatest)

NextOverlap ==
    \/ AuthMount
    \/ handleSearch
    \/ searchSweets(NameGum)
    \/ \E s \in Slots : ServeList(s)
    \/ \E s \in Slots : ServeSearch(s)
    \/ \E s \in Slots : Transport(s, NoResponse(""))
    \/ \E s \in Slots : fetchSweetsResume(s)
    \/ \E s \in Slots : searchSweetsResume(s)

SpecOverlap == InitOverlap /\ [][NextOverlap]_vars


(***************************************************************************)
(* SpecCard: an admin types quantities into the card of "Choc", buys, and  *)
(* edits the sweet; the list is loaded again.                              *)
(***************************************************************************)
InitCard == InitWith({[store |-> OneRecord(Choc(MaxStock)), nextId |-> 2]}, {AdminSession})

NextCard ==
    \/ AuthMount
    \/ Reload
    \/ \E text \in QuantityTexts : handleQuantityChange(1, text)
    \/ handlePurchase(1)
    \/ handleEdit(1)
    \/ EditSubmit(EditForm(NameChoc, CatBar, <<"1">>, <<"1">>))
    \/ \E s \in Slots : ServeList(s)
    \/ \E s \in Slots : ServePurchase(s)
    \/ \E s \in Slots : ServeUpdate(s)
    \/ \E s \in Slots : fetchSweetsResume(s)
    \/ \E s \in Slots : purchaseSweetResume(s)
    \/ \E s \in Slots : updateSweetResume(s)

SpecCard == InitCard /\ [][NextCard]_vars


(***************************************************************************)
(* SpecLeak: the plain user loads the list and logs out, possibly with a   *)
(* load of the list under way, and the admin logs in on the same page.     *)
(***************************************************************************)
InitLeak == InitWith({[store |-> OneRecord(Choc(1)), nextId |-> 2]}, {UserSession})

NextLeak ==
    \/ AuthMount
    \/ handleSearch
    \/ storage = UserSession /\ logout
    \/ login("admin")
    \/ \E s \in Slots : ServeAuth(s)
    \/ \E s \in Slots : ServeList(s)
    \/ \E s \in Slots : Transport(s, NoResponse(""))
    \/ \E s \in Slots : loginResume(s)
    \/ \E s \in Slots : fetchSweetsResume(s)

SpecLeak == InitLeak /\ [][NextLeak]_vars


(***************************************************************************)
(* SpecBody: an admin buys, restocks, edits and adds sweets; a response    *)
(* may come back as a success without body (204 No Content).               *)
(***************************************************************************)
InitBody == InitWith({[store |-> OneRecord(Choc(1)), nextId |-> 2]}, {AdminSession})

NextBody ==
    \/ AuthMount
    \/ handlePurchase(1)
    \/ handleRestock(1)
    \/ handleEdit(1)
    \/ showAddForm
    \/ RestockSubmit(<<"1">>)
    \/ EditSubmit(ValidEdit)
    \/ Len(sweets) < MaxId /\ AddSubmit(ValidSweet)
    \/ \E s \in Slots : ServeList(s)
    \/ \E s \in Slots : ServePurchase(s)
    \/ \E s \in Slots : ServeRestock(s)
    \/ \E s \in Slots : ServeUpdate(s)
    \/ \E s \in Slots : ServeCreate(s)
    \/ \E s \in Slots : Transport(s, OkEmpty)
    \/ \E s \in Slots : fetchSweetsResume(s)
    \/ \E s \in Slots : purchaseSweetResume(s)
    \/ \E s \in Slots : restockSweetResume(s)
    \/ \E s \in Slots : updateSweetResume(s)
    \/ \E s \in Slots : addSweetResume(s)

SpecBody == InitBody /\ [][NextBody]_vars


\* What the caller of a context function gets from the response in slot s.
CallerResult(s) ==
    CASE net[s].op = "create" -> addSweetResult(Response(s))
      [] net[s].op = "update" -> updateSweetResult(Response(s))
      [] net[s].op = "delete" -> deleteSweetResult(Response(s))
      [] net[s].op = "purchase" -> purchaseSweetResult(Response(s))
      [] net[s].op = "restock" -> restockSweetResult(Response(s))
CallerResultNext(s) ==
    CASE net[s].op = "create" -> addSweetResult(apiResponse(net[s].op, net'[s].http))
      [] net[s].op = "update" -> updateSweetResult(apiResponse(net[s].op, net'[s].http))
      [] net[s].op = "delete" -> deleteSweetResult(apiResponse(net[s].op, net'[s].http))
      [] net[s].op = "purchase" -> purchaseSweetResult(apiResponse(net[s].op, net'[s].http))
      [] net[s].op = "restock" -> restockSweetResult(apiResponse(net[s].op, net'[s].http))

PurchaseDecrementsOrRejects ==
    [][\A s \in Slots :
        (ServePurchase(s) /\ net[s].id \in DOMAIN store) =>
            LET id == net[s].id
                q == net[s].body.quantity
            IN  IF q <= StockOf(store, id)
                THEN /\ CallerResultNext(s).success
                     /\ store' = WithStock(store, id, StockOf(store, id) - q)
                ELSE /\ ~CallerResultNext(s).success
                     /\ CallerResultNext(s).error = "InsufficientStockError"
                     /\ store' = store]_vars

\* One purchase was accepted and another one rejected for lack of stock.
PurchaseBothWays ==
    \E s, t \in Slots :
        /\ Replied(s, "purchase") /\ CallerResult(s).success
        /\ Replied(t, "purchase") /\ CallerResult(t).error = "InsufficientStockError"

BothAnswered(s, t) ==
    /\ s # t
    /\ Replied(s, "purchase") /\ Replied(t, "purchase")
    /\ PurchasesIssued = {s, t}
Asked(s) == net[s].body.quantity
Bought(s) == IF CallerResult(s).success THEN Asked(s) ELSE 0

(***************************************************************************)
(* C3: two purchases of the same record that are under way together are    *)
(* served one after the other: the stock ends at RaceStock less what the   *)
(* accepted purchases took and is never negative; when the two ask for     *)
(* more than RaceStock together (3 and 3 of 5), exactly one of them        *)
(* succeeds and the other gets InsufficientStockError.                     *)
(***************************************************************************)
ConcurrentPurchasesSerialised ==
    \A s, t \in Slots :
        BothAnswered(s, t) =>
            /\ StockOf(store, 1) = RaceStock - Bought(s) - Bought(t)
            /\ StockOf(store, 1) >= 0
            /\ (Asked(s) + Asked(t) <= RaceStock) =>
                    (CallerResult(s).success /\ CallerResult(t).success)
            /\ (Asked(s) + Asked(t) > RaceStock) =>
                    /\ CallerResult(s).success # CallerResult(t).success
                    /\ \A u \in {s, t} :
                            ~CallerResult(u).success =>
                                CallerResult(u).error = "InsufficientStockError"

\* Both asked for RaceQty units; one got them, the other was refused, and
\* RaceStock - RaceQty units are left.
RaceLostByOne ==
    \E s, t \in Slots :
        /\ BothAnswered(s, t)
        /\ Asked(s) = RaceQty /\ Asked(t) = RaceQty
        /\ CallerResult(s).success
        /\ CallerResult(t).error = "InsufficientStockError"
        /\ StockOf(store, 1) = RaceStock - RaceQty

(***************************************************************************)
(* C4: a purchase or an update that fails changes nothing: the server      *)
(* keeps every record as it was, the target included, and so does the list *)
(* of the page.                                                            *)
(***************************************************************************)
FailureChangesNothing ==
    [][\A s \in Slots :
        /\ ((ServePurchase(s) \/ ServeUpdate(s)) /\ ~net'[s].http.ok) =>
                (store' = store /\ nextId' = nextId)
        /\ ((purchaseSweetResume(s) \/ updateSweetResume(s)) /\ ~CallerResult(s).success) =>
                sweets' = sweets]_vars

\* An update and a purchase have both been refused.
UpdateAndPurchaseRefused ==
    \E s, t \in Slots :
        /\ Replied(s, "update") /\ ~CallerResult(s).success
        /\ Replied(t, "purchase") /\ ~CallerResult(t).success

(***************************************************************************)
(* C5: a restock by q > 0 raises the stock by exactly q; the restock form  *)
(* answers a quantity that is 0, negative or not a number with a           *)
(* validation error, sends no request, and the stock is unchanged.         *)
(***************************************************************************)
RestockIncrementsOrRejects ==
    [][/\ \A t \in QuantityTexts :
            (RestockSubmit(t) /\ (IsNaN(ParseInt(t)) \/ ParseInt(t).val <= 0)) =>
                /\ modal'.error # ""
                /\ net' = net
                /\ store' = store
       /\ \A t \in QuantityTexts :
            (RestockSubmit(t) /\ ~IsNaN(ParseInt(t)) /\ ParseInt(t).val > 0) =>
                \E s \in Slots :
                    /\ IsFree(net, s)
                    /\ net'[s].st = "sent" /\ net'[s].op = "restock"
                    /\ net'[s].id = modal.id
                    /\ net'[s].body.quantity = ParseInt(t).val
       /\ \A s \in Slots :
            (ServeRestock(s) /\ net[s].id \in DOMAIN store /\ net[s].body.quantity > 0) =>
                /\ CallerResultNext(s).success
                /\ store' = WithStock(store, net[s].id,
                                      StockOf(store, net[s].id) + net[s].body.quantity)
      ]_vars

\* A restock went through, and the form has rejected a quantity since.
RestockBothWays ==
    /\ modal.kind = "restock" /\ modal.error # ""
    /\ \E s \in Slots : Replied(s, "restock") /\ CallerResult(s).success

InvalidForm(f) ==
    \/ Trim(f.name) = <<>>
    \/ Trim(f.category) = <<>>
    \/ IsNaN(ParseFloat(f.price)) \/ ParseFloat(f.price).val <= 0
    \/ IsNaN(ParseInt(f.quantity)) \/ ParseInt(f.quantity).val < 0
InvalidBody(b) ==
    \/ Trim(b.name) = <<>>
    \/ Trim(b.category) = <<>>
    \/ b.price <= 0
    \/ b.quantity_in_stock < 0

InvalidFieldForms == {f \in FieldForms : InvalidForm(f)}

(***************************************************************************)
(* C6: a create or an update whose name or category is blank, whose price  *)
(* is not a number above 0, or whose quantity is not a number from 0 up is *)
(* answered with a validation error and nothing of it is applied: the edit *)
(* form shows the error and sends no request, and the service refuses the  *)
(* create or update that reaches it.                                       *)
(***************************************************************************)
InvalidFieldsRejected ==
    [][/\ \A f \in InvalidFieldForms :
            EditSubmit(f) =>
                /\ modal'.error # ""
                /\ net' = net
                /\ store' = store
                /\ sweets' = sweets
       /\ \A s \in Slots :
            /\ (ServeCreate(s) /\ InvalidBody(net[s].body)) =>
                    /\ CallerResultNext(s).error = "ValidationError"
                    /\ store' = store
                    /\ nextId' = nextId
            /\ (ServeUpdate(s) /\ InvalidBody(net[s].body)) =>
                    /\ ~CallerResultNext(s).success
                    /\ store' = store
            /\ ((addSweetResume(s) \/ updateSweetResume(s)) /\ ~CallerResult(s).success) =>
                    sweets' = sweets
      ]_vars

\* The service has refused a create, and the edit form has refused its fields.
FieldsRefusedBothWays ==
    /\ modal.kind = "edit" /\ modal.error # ""
    /\ \E s \in Slots : Replied(s, "create") /\ CallerResult(s).error = "ValidationError"

\* Ids are handed out in order and never again: an id below nextId that the
\* store does not hold is the id of a deleted record.
Deleted(st, nid, id) == id < nid /\ id \notin DOMAIN st

(***************************************************************************)
(* C7: once a record is deleted it stays deleted: an update, a purchase, a *)
(* restock or another delete of its id is answered with NotFoundError and  *)
(* changes nothing, no operation brings the record back, and no listing    *)
(* the server gives contains it.                                           *)
(***************************************************************************)
DeletedStaysDeleted ==
    [][/\ \A id \in Ids : Deleted(store, nextId, id) => Deleted(store', nextId', id)
       /\ \A s \in Slots :
            /\ (ServeDelete(s) /\ net'[s].http.ok) => Deleted(store', nextId', net[s].id)
            /\ ((ServeUpdate(s) \/ ServePurchase(s) \/ ServeRestock(s) \/ ServeDelete(s))
                    /\ Deleted(store, nextId, net[s].id)) =>
                    /\ CallerResultNext(s).error = "NotFoundError"
                    /\ store' = store
            /\ ServeList(s) =>
                    \A i \in 1..Len(net'[s].http.data.items) :
                        ~Deleted(store, nextId, net'[s].http.data.items[i].id)
      ]_vars

\* "Choc" is deleted, an update of it has been answered with NotFoundError,
\* and a listing given since is empty.
UpdateAfterDelete ==
    /\ Deleted(store, nextId, 1)
    /\ \E s, t \in Slots :
            /\ Replied(s, "update") /\ CallerResult(s).error = "NotFoundError"
            /\ Replied(t, "list") /\ net[t].http.data.items = <<>>

\* Step: the call in slot s is issued (its request leaves).
Issued(s) == IsFree(net, s) /\ ~IsFree(net', s)

(***************************************************************************)
(* C8: a caller without a valid session never has an inventory operation   *)
(* applied: whatever the operation, the request is answered with an        *)
(* authorization error and the records stay as they are.  The dashboard is *)
(* rendered only while the session is logged in, and only then does the    *)
(* page issue requests.                                                    *)
(***************************************************************************)
AnonymousChangesNothing ==
    /\ [](DashboardShown => isLoggedIn)
    /\ [][/\ \A s \in Slots : \A op \in InventoryOps :
                (Serve(s, op) /\ RoleOf(net[s].auth) = "anonymous") =>
                    /\ ~net'[s].http.ok
                    /\ requestResult(net'[s].http).error = "AuthorizationError"
                    /\ store' = store
                    /\ nextId' = nextId
          /\ \A s \in Slots : Issued(s) => isLoggedIn'
         ]_vars

\* With the dashboard on screen, a purchase and a delete sent without a valid
\* token have been refused.
AnonymousRefused ==
    /\ DashboardShown
    /\ \E s, t \in Slots :
            /\ Replied(s, "purchase") /\ RoleOf(net[s].auth) = "anonymous"
            /\ CallerResult(s).error = "AuthorizationError"
            /\ Replied(t, "delete") /\ RoleOf(net[t].auth) = "anonymous"
            /\ CallerResult(t).error = "AuthorizationError"

PlainUser == user # NoUser /\ ~user[1].is_staff /\ ~user[1].is_superuser

SearchFormSearches ==
    [][handleSearch =>
        IF Trim(searchQuery) # <<>>
        THEN \E s \in Slots :
                /\ Issued(s)
                /\ net'[s].op = "search"
                /\ Handle(store, nextId, net'[s]).http.data.items = SearchAll(store, searchQuery)
        ELSE \E s \in Slots : Issued(s) /\ net'[s].op = "list"
      ]_vars

\* The ids of a sequence of records, in its order.
IdsOf(items) == [i \in 1..Len(items) |-> items[i].id]
Ascending(ids) == \A i, j \in 1..Len(ids) : i < j => ids[i] < ids[j]
\* items holds every record of st once, as st holds it, by id ascending.
FullListing(items, st) ==
    /\ Ascending(IdsOf(items))
    /\ Len(items) = Cardinality(DOMAIN st)
    /\ \A i \in 1..Len(items) : items[i].id \in DOMAIN st /\ items[i] = st[items[i].id]

IdsAreKeys(st) == \A i \in DOMAIN st : st[i].id = i

(***************************************************************************)
(* C12: a create that succeeds gives the new record an id that no other    *)
(* record has and leaves the other records as they are; an update, a       *)
(* purchase or a restock changes the id of no record, neither on the       *)
(* server nor in the list of the page.                                     *)
(***************************************************************************)
IdsFreshAndImmutable ==
    /\ [](IdsAreKeys(store))
    /\ [][\A s \in Slots :
            /\ (ServeCreate(s) /\ net'[s].http.ok) =>
                    LET new == Entry(net'[s].http.data).id
                    IN  /\ new \notin DOMAIN store
                        /\ DOMAIN store' = DOMAIN store \cup {new}
                        /\ \A i \in DOMAIN store : store'[i] = store[i]
            /\ (ServeUpdate(s) \/ ServePurchase(s) \/ ServeRestock(s)) =>
                    /\ DOMAIN store' = DOMAIN store
                    /\ net'[s].http.ok => Entry(net'[s].http.data).id = net[s].id
            /\ (addSweetResume(s) /\ net[s].http.ok) =>
                    IdsOf(sweets') = Append(IdsOf(sweets), Entry(net[s].http.data).id)
            /\ (updateSweetResume(s) \/ purchaseSweetResume(s) \/ restockSweetResume(s)) =>
                    IdsOf(sweets') = IdsOf(sweets)
         ]_vars

\* A sweet was added under id 3 while "Choc", edited and restocked since, is
\* still record 1 and "Gum" record 2, and the page shows a purchase of "Choc".
CreatedBesideEdited ==
    /\ DOMAIN store = {1, 2, 3}
    /\ StockOf(store, 1) = 3
    /\ IdsOf(sweets) = <<1, 2>>
    /\ \E s \in Slots : Replied(s, "create") /\ net[s].http.ok

RecordOps == {"update", "purchase", "restock"}
\* The calls of slots s and t are an update, a purchase or a restock each, on
\* different ids, and both in the given state of their way.
OnDifferentIds(s, t, st) ==
    /\ s # t
    /\ net[s].st = st /\ net[t].st = st
    /\ net[s].op \in RecordOps /\ net[t].op \in RecordOps
    /\ net[s].id # net[t].id
\* The server after the request of slot s, then that of slot t.
ServedInOrder(s, t) == Handle(Handle(store, nextId, net[s]).store, nextId, net[t])
\* The list of the page once the call of slot s has resumed.
ListAfter(prev, s) ==
    CASE net[s].op = "update" -> updateSweetList(prev, net[s].id, Response(s))
      [] net[s].op = "purchase" -> purchaseSweetList(prev, net[s].id, Response(s))
      [] net[s].op = "restock" -> restockSweetList(prev, net[s].id, Response(s))
\* No record but that of `id` differs between the two stores / lists.
OthersKept(before, after, id) ==
    /\ DOMAIN after = DOMAIN before
    /\ \A i \in DOMAIN before : i # id => after[i] = before[i]
OtherEntriesKept(before, after, id) ==
    /\ Len(after) = Len(before)
    /\ \A i \in 1..Len(before) : before[i].id # id => after[i] = before[i]

(***************************************************************************)
(* C13: an update, a purchase or a restock of record A changes no field of *)
(* any other record and leaves the set of ids as it is, on the server and  *)
(* in the list of the page.  Two such operations on different ids that are *)
(* under way together end in the same records and get the same answers     *)
(* whichever is served first, and in the same list of the page whichever   *)
(* response arrives first.                                                 *)
(***************************************************************************)
OtherRecordsUntouched ==
    /\ [](\A s, t \in Slots :
            /\ OnDifferentIds(s, t, "sent") =>
                    /\ ServedInOrder(s, t).store = ServedInOrder(t, s).store
                    /\ ServedInOrder(s, t).http = Handle(store, nextId, net[t]).http
            /\ OnDifferentIds(s, t, "replied") =>
                    ListAfter(ListAfter(sweets, s), t) = ListAfter(ListAfter(sweets, t), s))
    /\ [][\A s \in Slots :
            /\ (ServeUpdate(s) \/ ServePurchase(s) \/ ServeRestock(s)) =>
                    OthersKept(store, store', net[s].id)
            /\ (updateSweetResume(s) \/ purchaseSweetResume(s) \/ restockSweetResume(s)) =>
                    OtherEntriesKept(sweets, sweets', net[s].id)
         ]_vars

\* A purchase of "Choc" and an edit of "Gum" were under way together and have
\* both been accepted; the page shows neither yet.
TwoIdsChangedTogether ==
    \E s, t \in Slots :
        /\ OnDifferentIds(s, t, "replied")
        /\ net[s].op = "purchase" /\ net[s].id = 1 /\ net[s].http.ok
        /\ net[t].op = "update" /\ net[t].id = 2 /\ net[t].http.ok
        /\ store[2].name = NameChoc /\ StockOf(store, 1) = 0
        /\ sweets[1].quantity = 1 /\ sweets[2].name = NameGum

\* Step: the fetch of the call in slot s ends.
FetchEnds(s) == net[s].st = "sent" /\ net'[s].st = "replied"

(***************************************************************************)
(* C14: request() resolves, whatever the HTTP call ends in, to a result    *)
(* with success, data and status or to one with a failure, an error        *)
(* message that is not empty, and status; status is 0 exactly when the     *)
(* failure produced no HTTP response.                                      *)
(***************************************************************************)
RequestResultTyped ==
    [][\A s \in Slots :
        FetchEnds(s) =>
            LET http == net'[s].http
                r == requestResult(http)
            IN  /\ r.success => (r.data = http.data /\ r.status = http.status)
                /\ ~r.success => r.error \notin {Undefined, ""}
                /\ (r.status = 0) <=> ~HasResponse(http)
      ]_vars

\* The sweet `entry` is the record `rec` of the backend with the key quantity
\* added, which holds what quantity_in_stock holds.
MappedFromBackend(entry, rec) ==
    /\ DOMAIN entry = DOMAIN rec \cup {"quantity"}
    /\ entry.quantity = rec.quantity_in_stock
    /\ \A f \in DOMAIN rec : entry[f] = rec[f]
\* The body `body` is the caller's sweet data with quantity under the key
\* quantity_in_stock and nothing under quantity.
MappedToBackend(body, sweetData) ==
    /\ DOMAIN body = (DOMAIN sweetData \ {"quantity"}) \cup {"quantity_in_stock"}
    /\ body.quantity_in_stock = sweetData.quantity
    /\ \A f \in DOMAIN sweetData \ {"quantity"} : body[f] = sweetData[f]
SweetOps == {"list", "search", "create", "update", "purchase", "restock"}

(***************************************************************************)
(* C15: the quantity is mapped once, at ApiService, and goes round: the    *)
(* body that addSweet and updateSweet send carries the caller's quantity   *)
(* as quantity_in_stock and has no key quantity; every sweet that          *)
(* getSweets, searchSweets, addSweet, updateSweet, purchaseSweet and       *)
(* restockSweet deliver, and so every sweet of the page, has quantity      *)
(* equal to the quantity_in_stock of the backend and every other field as  *)
(* the backend sent it.                                                    *)
(***************************************************************************)
QuantityMappedAtAdapter ==
    /\ [](/\ \A s \in Slots :
                (net[s].st = "replied" /\ net[s].op \in SweetOps /\ net[s].http.ok) =>
                    /\ Len(Response(s).data.items) = Len(net[s].http.data.items)
                    /\ \A i \in 1..Len(net[s].http.data.items) :
                            MappedFromBackend(Response(s).data.items[i],
                                              net[s].http.data.items[i])
           /\ \A i \in 1..Len(sweets) : sweets[i].quantity = sweets[i].quantity_in_stock)
    /\ [][/\ EditSubmit(ValidEdit) =>
                \E s \in Slots :
                    Issued(s) /\ MappedToBackend(net'[s].body, EditSweetData(ValidEdit))
          /\ AddSubmit(ValidSweet) =>
                \E s \in Slots : Issued(s) /\ MappedToBackend(net'[s].body, ValidSweet)
          /\ \A s \in Slots :
                ((ServeCreate(s) \/ ServeUpdate(s)) /\ net'[s].http.ok) =>
                    Entry(net'[s].http.data).quantity_in_stock = net[s].body.quantity_in_stock
         ]_vars

\* The page shows 2 units of "Choc", as the edit form sent them and the
\* server stored them, and a sweet added with 1 unit.
QuantityWentRound ==
    /\ Len(sweets) = 3
    /\ sweets[1].quantity = 2 /\ StockOf(store, 1) = 2
    /\ sweets[3].quantity = 1 /\ StockOf(store, 3) = 1
    /\ \E s \in Slots : Replied(s, "search") /\ net[s].http.ok

\* The purchase requests that leave in this step.
PurchasesSent == {s \in Slots : net'[s].st = "sent" /\ net'[s].op = "purchase"
                                   /\ net'[s] # net[s]}

(***************************************************************************)
(* C16: a purchase that fails is not tried again by the page: a call of    *)
(* purchaseSweet sends one purchase request, a purchase request leaves in  *)
(* no other step, and the call that gets a failure returns it without a    *)
(* further request.                                                        *)
(***************************************************************************)
FailedPurchaseNotRetried ==
    [][/\ \A id \in Ids, q \in BuyQuantities :
            purchaseSweet(id, q) =>
                \E s \in Slots : PurchasesSent = {s} /\ Issued(s)
       /\ (~ \E id \in Ids, q \in BuyQuantities : purchaseSweet(id, q)) =>
                PurchasesSent = {}
       /\ \A s \in Slots :
            (purchaseSweetResume(s) /\ ~CallerResult(s).success) =>
                /\ IsFree(net', s)
                /\ \A t \in Slots \ {s} : net'[t] = net[t]
      ]_vars

\* One purchase was refused for lack of stock and the request of another got
\* no response.
PurchaseFailedTwice ==
    \E s, t \in Slots :
        /\ Replied(s, "purchase") /\ CallerResult(s).error = "InsufficientStockError"
        /\ Replied(t, "purchase") /\ ~HasResponse(net[t].http)
        /\ CallerResult(t).error = "Network error occurred"

\* What login or register returns to the form for the response in slot s.
AuthResult(s) ==
    loginState(Response(s), storage, isLoggedIn, user,
               IF net[s].op = "login" THEN "Login failed" ELSE "Registration failed").result
\* Step: the login or register call of slot s resumes.
AuthResumes(s) == loginResume(s) \/ registerResume(s)

(***************************************************************************)
(* C17: sessions are persistent.  A login or register that succeeds leaves *)
(* the page logged in with the returned user and stores a session that     *)
(* reads back as that user; a load of the page keeps what is stored and    *)
(* starts logged in exactly when a session is stored.  Hence, once the     *)
(* start-up effect has run, the page is logged in exactly when a session   *)
(* is stored, with the user that the stored text reads back as, and after  *)
(* a logout nothing is stored and the page starts logged out, user null.   *)
(***************************************************************************)
SessionPersistent ==
    /\ [](~authLoading =>
            /\ isLoggedIn <=> storage.access_token # Null
            /\ isLoggedIn =>
                    Parses(storage.user_data) /\ user = <<Parse(storage.user_data)>>
            /\ ~isLoggedIn => (user = NoUser /\ storage = NoSession))
    /\ [][/\ \A s \in Slots :
                (AuthResumes(s) /\ AuthResult(s).success) =>
                    /\ isLoggedIn'
                    /\ user' = <<AuthField(net[s].http.data, "user")>>
                    /\ Parses(storage'.user_data)
                    /\ Parse(storage'.user_data) = AuthField(net[s].http.data, "user")
          /\ appReload => storage' = storage
          /\ AuthMount =>
                /\ storage' = storage
                /\ isLoggedIn' <=> storage.access_token # Null
          /\ logout => (storage' = NoSession /\ ~isLoggedIn' /\ user' = NoUser)
         ]_vars

\* The page is being loaded again with the session that the login of the
\* admin stored.
ReloadedWithAdminSession ==
    /\ authLoading /\ ~isLoggedIn /\ user = NoUser
    /\ storage = AdminSession

(***************************************************************************)
(* C18: when a delete asked for on the dashboard fails, the sweet context  *)
(* handles the failure: its error state gets a value, so that the error    *)
(* alert of the dashboard is shown, and the list of sweets stays as it is. *)
(***************************************************************************)
FailedDeleteShown ==
    [][\A s \in Slots :
        (deleteSweetResume(s) /\ ~CallerResult(s).success) =>
            (error' # Null /\ sweets' = sweets)
      ]_vars

\* Step: the request of the call in slot s is built and leaves.
Built(s) == net[s].st # "sent" /\ net'[s].st = "sent"

(***************************************************************************)
(* C19: a logout clears the whole session: access_token, refresh_token and *)
(* user_data are gone from storage, isLoggedIn is false and user is null.  *)
(* From then on storage holds no session until a login or register         *)
(* succeeds, and every request built while it holds none carries no        *)
(* Authorization header.                                                   *)
(***************************************************************************)
LogoutClearsSession ==
    [][/\ logout => (storage' = NoSession /\ ~isLoggedIn' /\ user' = NoUser)
       /\ (storage = NoSession /\ storage' # NoSession) =>
                \E s \in Slots : AuthResumes(s) /\ AuthResult(s).success
       /\ \A s \in Slots :
            (Built(s) /\ storage' = NoSession) => net'[s].auth = NoAuth
      ]_vars

\* After a logout (the list of the session is still held by the provider) a
\* login request is on its way without Authorization header.
LoginSentAfterLogout ==
    /\ ~authLoading /\ ~isLoggedIn /\ user = NoUser
    /\ storage = NoSession
    /\ sweets # <<>>
    /\ \E s \in Slots : net[s].st = "sent" /\ net[s].op = "login" /\ net[s].auth = NoAuth

\* The response in slot s is a success that carries an access token.
TokenReturned(s) == net[s].http.ok /\ net[s].http.data.kind = "auth"

(***************************************************************************)
(* C20: a login or register attempt that does not come back as a success   *)
(* with an access token changes nothing: the three keys of storage,        *)
(* isLoggedIn and user stay as they are and the form gets a failure with   *)
(* an error text that is not empty.  An attempt that succeeds stores the   *)
(* three keys and leaves the page logged in with the returned user.        *)
(***************************************************************************)
FailedLoginChangesNothing ==
    [][\A s \in Slots :
        AuthResumes(s) =>
            IF TokenReturned(s)
            THEN /\ AuthResult(s).success
                 /\ storage'.access_token = net[s].http.data.items[1].access_token
                 /\ storage'.refresh_token = net[s].http.data.items[1].refresh_token
                 /\ storage'.user_data = Stringify(net[s].http.data.items[1].user)
                 /\ isLoggedIn'
                 /\ user' = <<net[s].http.data.items[1].user>>
            ELSE /\ ~AuthResult(s).success
                 /\ Len(AuthResult(s).errors) > 0
                 /\ \A i \in 1..Len(AuthResult(s).errors) :
                        AuthResult(s).errors[i] \notin {Undefined, ""}
                 /\ storage' = storage
                 /\ isLoggedIn' = isLoggedIn
                 /\ user' = user
                 /\ sweets' = sweets
      ]_vars

\* While the admin is logged in, a login with wrong credentials, sent before,
\* has been refused.
LoginRefusedWhileLoggedIn ==
    /\ isLoggedIn /\ storage = AdminSession
    /\ \E s \in Slots :
            /\ Replied(s, "login") /\ net[s].body.username = "wrong"
            /\ ~AuthResult(s).success
            /\ AuthResult(s).errors # <<"Login failed">>

\* Step: the fetchSweets or searchSweets call of slot s returns.
ListCallEnds(s) ==
    /\ (Replied(s, "list") \/ Replied(s, "search"))
    /\ net'[s].st = "free"

(***************************************************************************)
(* C21: a fetchSweets or searchSweets call that fails ends with the list   *)
(* empty and error not null; one that succeeds ends with error null and    *)
(* the list equal to the returned array, or empty when the returned data   *)
(* is not an array.                                                        *)
(***************************************************************************)
ListCallEndsAsAnswered ==
    [][\A s \in Slots :
        ListCallEnds(s) =>
            IF Response(s).success
            THEN /\ error' = Null
                 /\ sweets' = IF IsArray(Response(s).data) THEN Response(s).data.items
                              ELSE <<>>
            ELSE /\ sweets' = <<>>
                 /\ error' # Null
      ]_vars

(***************************************************************************)
(* C22: once the start-up effect of AuthProvider has run, isLoggedIn       *)
(* implies that user is not null and that access_token is in storage; a    *)
(* stored user_data that cannot be parsed leaves the page logged out with  *)
(* the stored credentials removed.                                         *)
(***************************************************************************)
LoggedInHasUserAndToken ==
    (~authLoading /\ isLoggedIn) => (user # NoUser /\ storage.access_token # Null)

(***************************************************************************)
(* C23: the list of sweets held by SweetProvider never has two entries     *)
(* with the same id, however fetchSweets, searchSweets and addSweet calls  *)
(* interleave and in whatever order their responses arrive.                *)
(***************************************************************************)
NoTwoEntriesWithOneId ==
    \A i, j \in 1..Len(sweets) : sweets[i].id = sweets[j].id => i = j

\* No call is under way: every response has arrived and its call has returned.
AllArrived == \A s \in Slots : net[s].st = "free"

(***************************************************************************)
(* C24: when purchases and restocks of one sweet are in flight together,   *)
(* then once all their responses have arrived the quantity the page holds  *)
(* for the sweet is the stock the server ended with, in whatever order the *)
(* responses arrived.                                                      *)
(***************************************************************************)
QuantityIsServerStock ==
    AllArrived =>
        \A i \in 1..Len(sweets) :
            /\ sweets[i].id \in DOMAIN store
            /\ sweets[i].quantity = StockOf(store, sweets[i].id)

\* The error a fetchSweets or searchSweets call leaves by itself: null when
\* it succeeds, its message otherwise.
ListCallError(s) ==
    fetchSweetsError(Null, Response(s),
                     IF net[s].op = "list" THEN "Failed to fetch sweets"
                     ELSE "Failed to search sweets")

(***************************************************************************)
(* C25: when fetchSweets and searchSweets calls overlap, then once all     *)
(* their responses have arrived the list and the error are those of the    *)
(* call that was issued last, in whatever order the responses arrived.     *)
(***************************************************************************)
LastIssuedCallWins ==
    [][\A s \in Slots :
        (ListCallEnds(s) /\ ListCalls(net') = {}) =>
            IF latest.done
            THEN sweets' = latest.list /\ error' = latest.error
            ELSE /\ sweets' = fetchSweetsList(Response(s))
                 /\ error' = ListCallError(s)
      ]_vars

\* Step: the card of a sweet sends a purchase request in slot s.
CardSends(s) ==
    /\ net[s].st = "free"
    /\ net'[s].st = "sent" /\ net'[s].op = "purchase" /\ net'[s].caller = "card"

(***************************************************************************)
(* C26: the quantity a SweetCard sends in a purchase request is an integer *)
(* q with 1 <= q <= the stock the card displays at that moment, whatever   *)
(* quantity edits, purchases, restocks, edits of the sweet and list        *)
(* refreshes came before; and a card that displays stock 0 sends none.     *)
(***************************************************************************)
CardSendsWithinStock ==
    [][\A s \in Slots :
        CardSends(s) =>
            LET q == net'[s].body.quantity
                stock == CardSweet(net'[s].id).quantity
            IN  /\ q \in Int
                /\ 1 <= q /\ q <= stock
                /\ stock # 0
      ]_vars

\* Step: a session begins on the page.
SessionBegins == ~isLoggedIn /\ isLoggedIn'
\* Step: the call of slot s, whose request left with the token of another
\* account than the one now logged in, returns.
ForeignCallEnds(s) ==
    /\ net[s].st = "replied" /\ net'[s].st = "free"
    /\ isLoggedIn
    /\ net[s].auth \notin {NoAuth, storage.access_token}

(***************************************************************************)
(* C27: after a logout and the login of another user the list of sweets    *)
(* holds nothing that was fetched or updated during the session before:    *)
(* the list is empty when the new session begins, and the results of the   *)
(* requests that were in flight at the logout do not reach it.             *)
(***************************************************************************)
NothingKeptFromSessionBefore ==
    [][/\ SessionBegins => sweets' = <<>>
       /\ \A s \in Slots : ForeignCallEnds(s) => sweets' = sweets
      ]_vars

(***************************************************************************)
(* C28: every entry of the list of sweets is a record with an id and a     *)
(* quantity after any successful addSweet, updateSweet, purchaseSweet or   *)
(* restockSweet, also when the successful response carries no body         *)
(* (purchaseSweet then loads the whole list again instead of replacing     *)
(* the entry).                                                             *)
(***************************************************************************)
EntriesAreSweets ==
    \A i \in 1..Len(sweets) :
        sweets[i].id # NoNumber /\ sweets[i].quantity # NoNumber

====
